---- MODULE Spec2Model ----
(***************************************************************************)
(* Session service of the sidecar agent runtime.                           *)
(*                                                                         *)
(* State: the session document at its storage path, the running_exchanges  *)
(* map of cancellation tokens, the workspace files touched by edits, the   *)
(* editor's exchange-id mint and one record per in-flight request.         *)
(* Every await in SessionService is a step of the request that runs it.    *)
(***************************************************************************)
EXTENDS Integers, Sequences, FiniteSets, TLC

(* ------------------------------ bounds --------------------------------- *)

\* requests accepted by the webserver in one behaviour
MaxOps == 3

\* LLM turns of one tool-use loop that may be followed by another turn
MaxTurns == 1

\* requests accepted in one behaviour in which the tasks race
MaxRace == 2

\* tasks that can be in flight at the same time (tokio::spawn per request)
Procs == {1, 2}

(* ------------------------------ identifiers ---------------------------- *)

\* ids are strings in the code; here a string is the sequence of its characters
Digits == <<"1", "2", "3", "4", "5", "6", "7", "8", "9">>

SessionId == <<"s">>

ExchangeId(n) == <<Digits[n]>>

NoId == << >>

\* format!("{}-{}", session_id, exchange_id)
HashId(session_id, exchange_id) == session_id \o <<"-">> \o exchange_id

Paths == {"a.rs", "b.rs"}

(* ------------------------------ exchanges ------------------------------ *)

HumanKinds == {"HumanChat", "HumanAnchoredEdit", "HumanAgenticEdit", "HumanPlan"}

AssistantKinds == {"AssistantChat", "AssistantEdit", "AssistantPlan"}

Statuses == {"Open", "Running", "Completed", "Cancelled", "Rejected"}

\* pre_edit_snapshot of an exchange that edited nothing
NoSnapshot == [f \in {} |-> 0]

Exchange(id, kind, status, parent, snap) ==
    [exchange_id |-> id, kind |-> kind, status |-> status,
     parent |-> parent, pre_edit_snapshot |-> snap]

NoExchange == Exchange(NoId, "none", "none", NoId, NoSnapshot)

\* Session::new: no exchanges
NewSession == << >>

IndexOf(session, exchange_id) ==
    IF \E i \in 1..Len(session) : session[i].exchange_id = exchange_id
    THEN CHOOSE i \in 1..Len(session) :
            /\ session[i].exchange_id = exchange_id
            /\ \A j \in 1..(i - 1) : session[j].exchange_id # exchange_id
    ELSE 0

get_exchange_by_id(session, exchange_id) ==
    IF IndexOf(session, exchange_id) = 0 THEN NoExchange
    ELSE session[IndexOf(session, exchange_id)]

\* the human exchange the assistant exchange exchange_id replies to
get_parent_exchange_id(session, exchange_id) ==
    get_exchange_by_id(session, get_exchange_by_id(session, exchange_id).parent)

\* Session::human_message / plan / agentic_edit / anchored_edit: append the
\* human exchange of the request
AppendHuman(session, exchange_id, kind) ==
    Append(session, Exchange(exchange_id, kind, "Completed", NoId, NoSnapshot))

\* the mode handler opens the assistant exchange it works on
AppendAssistant(session, exchange_id, kind, parent) ==
    Append(session, Exchange(exchange_id, kind, "Running", parent, NoSnapshot))

SetStatus(session, exchange_id, from, to) ==
    [i \in 1..Len(session) |->
        IF session[i].exchange_id = exchange_id /\ session[i].status \in from
        THEN [session[i] EXCEPT !.status = to]
        ELSE session[i]]

\* the mode handler has produced its reply: a chat reply is complete, a plan
\* or an edit waits for the user's accept / reject
FinishExchange(session, exchange_id) ==
    SetStatus(session, exchange_id, {"Running"},
              IF get_exchange_by_id(session, exchange_id).kind = "AssistantChat"
              THEN "Completed" ELSE "Open")

accept_open_exchanges_if_any(session) ==
    [i \in 1..Len(session) |->
        IF session[i].status = "Open" /\ session[i].kind \in AssistantKinds
        THEN [session[i] EXCEPT !.status = "Completed"]
        ELSE session[i]]

react_to_feedback(session, exchange_id, accepted) ==
    SetStatus(session, exchange_id, {"Open"},
              IF accepted THEN "Completed" ELSE "Rejected")

has_running_code_edits(session, exchange_id) ==
    LET e == get_exchange_by_id(session, exchange_id)
    IN  /\ e.status = "Running"
        /\ e.kind = "AssistantEdit"
        /\ DOMAIN e.pre_edit_snapshot # {}

Session_set_exchange_as_cancelled(session, exchange_id) ==
    SetStatus(session, exchange_id, {"Running"}, "Cancelled")

last_exchange(session) ==
    IF Len(session) = 0 THEN NoExchange ELSE session[Len(session)]

EditedFiles(session) ==
    UNION {DOMAIN session[i].pre_edit_snapshot : i \in 1..Len(session)}

\* "none" when no exchange of the session edited a file
find_last_edited_file(session) ==
    IF EditedFiles(session) = {} THEN "none"
    ELSE LET last == CHOOSE i \in 1..Len(session) :
                        /\ DOMAIN session[i].pre_edit_snapshot # {}
                        /\ \A j \in (i + 1)..Len(session) :
                              DOMAIN session[j].pre_edit_snapshot = {}
         IN  CHOOSE f \in DOMAIN session[last].pre_edit_snapshot : TRUE

\* record the pre-edit content of path the first time the exchange edits it
CaptureSnapshot(session, exchange_id, path, content) ==
    [i \in 1..Len(session) |->
        IF session[i].exchange_id = exchange_id
           /\ path \notin DOMAIN session[i].pre_edit_snapshot
        THEN [session[i] EXCEPT !.pre_edit_snapshot =
                 [f \in (DOMAIN @) \cup {path} |->
                     IF f = path THEN content ELSE @[f]]]
        ELSE session[i]]

\* the files of the workspace after the snapshots of session[from..] are
\* put back, latest exchange first
RECURSIVE RestoreFrom(_, _, _)
RestoreFrom(session, from, fs) ==
    IF from = 0 \/ from > Len(session) THEN fs
    ELSE LET later == RestoreFrom(session, from + 1, fs)
             snap  == session[from].pre_edit_snapshot
         IN  [f \in DOMAIN fs |-> IF f \in DOMAIN snap THEN snap[f] ELSE later[f]]

TrimFrom(session, from) ==
    IF from = 0 THEN session ELSE SubSeq(session, 1, from - 1)

(* ------------------------------ storage -------------------------------- *)

\* serde_json::to_string: the document is a sequence of tokens, one per
\* exchange, between an opening and a closing token
Tok(t, ex) == [t |-> t, ex |-> ex]

Serialize(session) ==
    <<Tok("{", NoExchange)>>
        \o [i \in 1..Len(session) |-> Tok("ex", session[i])]
        \o <<Tok("}", NoExchange)>>

\* serde_json::from_str succeeds on a complete document only
Parses(content) ==
    /\ Len(content) >= 2
    /\ content[1].t = "{"
    /\ content[Len(content)].t = "}"
    /\ \A i \in 2..(Len(content) - 1) : content[i].t = "ex"

Deserialize(content) == [i \in 1..(Len(content) - 2) |-> content[i + 1].ex]

Max(a, b) == IF a >= b THEN a ELSE b

\* a write of data through a handle whose position is off; what lies between
\* the end of the file and off is a hole
WriteAt(content, off, data) ==
    [i \in 1..Max(Len(content), off + Len(data)) |->
        IF i > off /\ i <= off + Len(data) THEN data[i - off]
        ELSE IF i <= Len(content) THEN content[i]
        ELSE Tok("hole", NoExchange)]

NoFile == [exists |-> FALSE, content |-> << >>]

\* tokio::fs::File::create: creates the file or truncates it
FileCreateKeep(file) == [exists |-> TRUE, content |-> file.content]

FileCreate(file) == [exists |-> TRUE, content |-> << >>]

\* outcome of load_from_storage: Err(IOError) when the file cannot be read,
\* a panic (expect) when the content is not a session, Ok(session) otherwise
load_from_storage(file) ==
    IF ~file.exists THEN [r |-> "err", session |-> NewSession]
    ELSE IF ~Parses(file.content) THEN [r |-> "panic", session |-> NewSession]
    ELSE [r |-> "ok", session |-> Deserialize(file.content)]

(* ------------------------------ state ---------------------------------- *)

VARIABLES
    storage,            \* the file at the session's storage path
    running_exchanges,  \* hash_id -> CancellationToken
    cancelled,          \* the tokens that have been cancelled
    editor,             \* exchange ids minted by the editor so far
    files,              \* workspace files: path -> content
    ops,                \* requests accepted so far
    task,               \* the request each task serves, and where it is
    before,             \* history: exchange id -> the files when it was minted
    last_cancel,        \* history: the last set_exchange_as_cancelled that returned
    stream,             \* one streaming completion of the OpenRouter client
    caller,             \* the caller of that completion, its channel and token
    parser,             \* one call of parse_out_tool_input
    accumulator,        \* one file under the search-and-replace accumulator
    scratch_pad,        \* the scratch-pad agent's environment loop
    invocation,         \* one Tool::invoke call
    sse,                \* one server-sent-events response of the webserver
    tracked,            \* history: (session id, exchange id) -> the token last registered
    tracker             \* the AnchoredEditingTracker and the edits started under it

session_vars == <<storage, running_exchanges, cancelled, editor, files, ops,
                  task, before, last_cancel>>

vars == <<storage, running_exchanges, cancelled, editor, files, ops, task,
          before, last_cancel, stream, caller, parser, accumulator,
          scratch_pad, invocation, sse, tracked, tracker>>

web_vars == <<tracked, tracker>>

agent_vars == <<scratch_pad, invocation, sse, web_vars>>

\* CancellationToken::new(): the token the webserver makes for request n,
\* the token a service operation makes for the exchange id it minted, and
\* the token plan_iteration makes while serving request n
NoToken == <<"none", 0>>

RequestToken(n) == <<"request", n>>

ExchangeToken(n) == <<"exchange", n>>

IterationToken(n) == <<"iteration", n>>

Idle ==
    [op |-> "none", pc |-> "idle", exchange_id |-> NoId, request_id |-> NoId,
     token |-> NoToken, session |-> NewSession, loaded |-> NewSession,
     found |-> FALSE, twice |-> FALSE, ret |-> "none", off |-> 0,
     accepted |-> FALSE, selection |-> FALSE, path |-> "none",
     turns |-> 0, tools |-> 0, tool |-> "none", result |-> "none"]

NoCancel == [exchange_id |-> NoId, content |-> << >>]

SessionInit ==
    /\ storage = NoFile
    /\ running_exchanges = [h \in {} |-> NoToken]
    /\ cancelled = {}
    /\ editor = 0
    /\ files = [f \in Paths |-> 0]
    /\ ops = 0
    /\ task = [p \in Procs |-> Idle]
    /\ before = [h \in {} |-> files]
    /\ last_cancel = NoCancel

\* no completion is streaming, nothing is being parsed or edited
NoStream == [status |-> "idle"]

NoCaller == [mode |-> "none"]

NoParser == [pc |-> "idle"]

NoAccumulator == [pc |-> "idle"]

\* the scratch pad is not started, no tool is invoked, no response is open
NoScratchPad == [pc |-> "idle"]

NoTool == [pc |-> "idle"]

NoSse == [pc |-> "idle"]

\* nothing has been registered, no anchored edit has been requested
NoneTracked == [pair \in {} |-> NoToken]

NoTracker ==
    [running_requests_properties |-> [request_id \in {} |-> NoToken],
     operations |-> << >>, cancelled |-> {}, stopped |-> NoId]

Init ==
    /\ SessionInit
    /\ stream = NoStream
    /\ caller = NoCaller
    /\ parser = NoParser
    /\ accumulator = NoAccumulator
    /\ scratch_pad = NoScratchPad
    /\ invocation = NoTool
    /\ sse = NoSse
    /\ tracked = NoneTracked
    /\ tracker = NoTracker

\* a request is handed to the first free task, once the finished ones are gone
Free(p) ==
    /\ task[p].pc = "idle"
    /\ \A q \in Procs : task[q].pc # "done"
    /\ \A q \in Procs : task[q].pc = "idle" => p <= q

KnownIds == {ExchangeId(n) : n \in 1..editor}

(* ------------------------------ webserver ------------------------------ *)

ModeOps == {"human_message", "plan_generation", "code_edit_agentic", "code_edit_anchored"}

RefOps == {"plan_iteration", "feedback_for_exchange", "handle_session_undo"}

Put(f, k, v) == [x \in (DOMAIN f) \cup {k} |-> IF x = k THEN v ELSE f[x]]

\* agent_session_chat, agent_session_plan, agent_session_edit_agentic,
\* agent_session_edit_anchored: the request carries an exchange id of the
\* editor, the handler makes a token and spawns the service operation
StartMode(p, op, selection) ==
    /\ Free(p)
    /\ ops < MaxOps
    /\ ops' = ops + 1
    /\ editor' = editor + 1
    /\ before' = Put(before, ExchangeId(editor + 1), files)
    /\ task' = [task EXCEPT ![p] =
                  [Idle EXCEPT !.op = op, !.pc = "load",
                               !.exchange_id = ExchangeId(editor + 1),
                               !.request_id = ExchangeId(editor + 1),
                               !.token = RequestToken(ops + 1),
                               !.selection = selection]]
    /\ UNCHANGED <<storage, running_exchanges, cancelled, files, last_cancel>>

\* agent_session_plan_iterate, user_feedback_on_exchange, handle_session_undo:
\* the request names an exchange the editor knows
StartRef(p, op, exchange_id, accepted) ==
    /\ Free(p)
    /\ ops < MaxOps
    /\ ops' = ops + 1
    /\ task' = [task EXCEPT ![p] =
                  [Idle EXCEPT !.op = op, !.pc = "load",
                               !.exchange_id = exchange_id,
                               !.request_id = exchange_id,
                               !.token = RequestToken(ops + 1),
                               !.accepted = accepted]]
    /\ UNCHANGED <<storage, running_exchanges, cancelled, editor, files, before,
                   last_cancel>>

\* cancel_running_exchange, up to the lookup of the token
StartCancel(p, exchange_id) ==
    /\ Free(p)
    /\ ops < MaxOps
    /\ ops' = ops + 1
    /\ task' = [task EXCEPT ![p] =
                  [Idle EXCEPT !.op = "cancel_running_exchange", !.pc = "cancel",
                               !.exchange_id = exchange_id,
                               !.request_id = exchange_id,
                               !.token = RequestToken(ops + 1)]]
    /\ UNCHANGED <<storage, running_exchanges, cancelled, editor, files, before,
                   last_cancel>>

get_cancellation_token(map, session_id, exchange_id) ==
    IF HashId(session_id, exchange_id) \in DOMAIN map
    THEN map[HashId(session_id, exchange_id)]
    ELSE NoToken

track_exchange(map, session_id, exchange_id, token) ==
    Put(map, HashId(session_id, exchange_id), token)

\* cancel_running_exchange: cancel the registered token, or answer at once
\* when there is none; the sleep ends when the task is scheduled again
CancelToken(p) ==
    /\ task[p].pc = "cancel"
    /\ LET token == get_cancellation_token(running_exchanges, SessionId,
                                           task[p].exchange_id)
       IN  IF token = NoToken
           THEN /\ task' = [task EXCEPT ![p].pc = "done", ![p].result = "no_token"]
                /\ UNCHANGED cancelled
           ELSE /\ cancelled' = cancelled \cup {token}
                /\ task' = [task EXCEPT ![p].pc = "load"]
    /\ UNCHANGED <<storage, running_exchanges, editor, files, ops, before,
                   last_cancel>>

(* ------------------------------ SessionService ------------------------- *)

Loaded == load_from_storage(storage)

\* `if let Ok(session) = self.load_from_storage(..) { session } else { create_new_session }`
LoadOrCreate == IF Loaded.r = "ok" THEN Loaded.session ELSE NewSession

\* no other task is inside a session-service operation
Serial(p) ==
    \A q \in Procs \ {p} :
        \/ task[q].pc \in {"idle", "done"}
        \/ task[q].op = "cancel_running_exchange" /\ task[q].pc \in {"cancel", "load"}

Finish(t, result) ==
    [t EXCEPT !.pc = "done", !.result = result]

\* serde_json::from_str(..).expect(..) in load_from_storage: the task dies
LoadPanic(p) ==
    /\ task[p].pc = "load"
    /\ Loaded.r = "panic"
    /\ task' = [task EXCEPT ![p] = Finish(@, "panic")]
    /\ UNCHANGED <<storage, running_exchanges, cancelled, editor, files,
                   ops, before, last_cancel>>

human_messageLoad(p) ==
    /\ task[p].pc = "load" /\ task[p].op = "human_message"
    /\ Loaded.r # "panic"
    /\ task' = [task EXCEPT ![p].loaded = LoadOrCreate,
                            ![p].found = (Loaded.r = "ok"),
                            ![p].session = AppendHuman(LoadOrCreate,
                                              task[p].exchange_id, "HumanChat"),
                            ![p].pc = "mint"]
    /\ last_cancel' = NoCancel
    /\ UNCHANGED <<storage, running_exchanges, cancelled, editor, files,
                   ops, before>>

\* session.plan(..) and the first save_to_storage
plan_generationLoad(p) ==
    /\ task[p].pc = "load" /\ task[p].op = "plan_generation"
    /\ Loaded.r # "panic"
    /\ task' = [task EXCEPT ![p].loaded = LoadOrCreate,
                            ![p].found = (Loaded.r = "ok"),
                            ![p].session = AppendHuman(LoadOrCreate,
                                              task[p].exchange_id, "HumanPlan"),
                            ![p].pc = "save_create",
                            ![p].ret = "mint"]
    /\ last_cancel' = NoCancel
    /\ UNCHANGED <<storage, running_exchanges, cancelled, editor, files,
                   ops, before>>

\* returns Ok(()) when the exchange has no parent in the session; otherwise
\* session.plan_iteration(..) and the first save_to_storage
plan_iterationLoad(p) ==
    /\ task[p].pc = "load" /\ task[p].op = "plan_iteration"
    /\ Loaded.r # "panic"
    /\ IF get_parent_exchange_id(LoadOrCreate, task[p].exchange_id) = NoExchange
       THEN task' = [task EXCEPT ![p] =
                        Finish([@ EXCEPT !.loaded = LoadOrCreate,
                                         !.found = (Loaded.r = "ok"),
                                         !.session = LoadOrCreate], "ok")]
       ELSE task' = [task EXCEPT ![p].loaded = LoadOrCreate,
                                 ![p].found = (Loaded.r = "ok"),
                                 ![p].session = LoadOrCreate,
                                 ![p].pc = "save_create",
                                 ![p].ret = "retoken"]
    /\ last_cancel' = NoCancel
    /\ UNCHANGED <<storage, running_exchanges, cancelled, editor, files,
                   ops, before>>

\* session.agentic_edit(..) and accept_open_exchanges_if_any
code_edit_agenticLoad(p) ==
    /\ task[p].pc = "load" /\ task[p].op = "code_edit_agentic"
    /\ Loaded.r # "panic"
    /\ task' = [task EXCEPT ![p].loaded = LoadOrCreate,
                            ![p].found = (Loaded.r = "ok"),
                            ![p].session = accept_open_exchanges_if_any(
                                              AppendHuman(LoadOrCreate,
                                                  task[p].exchange_id,
                                                  "HumanAgenticEdit")),
                            ![p].pc = "mint"]
    /\ last_cancel' = NoCancel
    /\ UNCHANGED <<storage, running_exchanges, cancelled, editor, files,
                   ops, before>>

code_edit_anchoredLoadAlways(p) ==
    /\ task[p].pc = "load" /\ task[p].op = "code_edit_anchored"
    /\ Loaded.r # "panic"
    /\ task' = [task EXCEPT ![p].loaded = LoadOrCreate,
                            ![p].found = (Loaded.r = "ok"),
                            ![p].session = LoadOrCreate,
                            ![p].pc = "file_open"]
    /\ last_cancel' = NoCancel
    /\ UNCHANGED <<storage, running_exchanges, cancelled, editor, files,
                   ops, before>>

\* returns Ok(()) without a selection variable; otherwise goes on to file_open
code_edit_anchoredLoad(p) ==
    /\ task[p].pc = "load" /\ task[p].op = "code_edit_anchored"
    /\ Loaded.r # "panic"
    /\ IF ~task[p].selection
       THEN task' = [task EXCEPT ![p] =
                        Finish([@ EXCEPT !.loaded = LoadOrCreate,
                                         !.found = (Loaded.r = "ok"),
                                         !.session = LoadOrCreate], "ok")]
       ELSE task' = [task EXCEPT ![p].loaded = LoadOrCreate,
                                 ![p].found = (Loaded.r = "ok"),
                                 ![p].session = LoadOrCreate,
                                 ![p].pc = "file_open"]
    /\ last_cancel' = NoCancel
    /\ UNCHANGED <<storage, running_exchanges, cancelled, editor, files,
                   ops, before>>

\* tool_box.file_open(selection file)?, then accept_open_exchanges_if_any
code_edit_anchoredFileOpen(p) ==
    /\ task[p].pc = "file_open"
    /\ \E path \in Paths, opened \in BOOLEAN :
          IF opened
          THEN task' = [task EXCEPT ![p].path = path,
                                    ![p].session =
                                        accept_open_exchanges_if_any(@),
                                    ![p].pc = "mint"]
          ELSE task' = [task EXCEPT ![p] = Finish(@, "err")]
    /\ UNCHANGED <<storage, running_exchanges, cancelled, editor, files,
                   ops, before, last_cancel>>

\* returns Ok(()) when there is no stored session; otherwise react_to_feedback
feedback_for_exchangeLoad(p) ==
    /\ task[p].pc = "load" /\ task[p].op = "feedback_for_exchange"
    /\ Loaded.r # "panic"
    /\ IF Loaded.r = "err"
       THEN task' = [task EXCEPT ![p] = Finish(@, "ok")]
       ELSE task' = [task EXCEPT ![p].loaded = Loaded.session,
                                 ![p].found = TRUE,
                                 ![p].session = react_to_feedback(Loaded.session,
                                                   task[p].exchange_id,
                                                   task[p].accepted),
                                 ![p].pc = IF task[p].accepted THEN "mint"
                                           ELSE "save_create",
                                 ![p].ret = "done"]
    /\ last_cancel' = NoCancel
    /\ UNCHANGED <<storage, running_exchanges, cancelled, editor, files,
                   ops, before>>

\* returns Ok(()) when there is no stored session
handle_session_undoLoad(p) ==
    /\ task[p].pc = "load" /\ task[p].op = "handle_session_undo"
    /\ Loaded.r # "panic"
    /\ IF Loaded.r = "err"
       THEN task' = [task EXCEPT ![p] = Finish(@, "ok")]
       ELSE task' = [task EXCEPT ![p].loaded = Loaded.session,
                                 ![p].found = TRUE,
                                 ![p].session = Loaded.session,
                                 ![p].pc = "undo"]
    /\ last_cancel' = NoCancel
    /\ UNCHANGED <<storage, running_exchanges, cancelled, editor, files,
                   ops, before>>

\* Session::undo_including_exchange_id: put the snapshots of exchange_id and
\* of the later exchanges back, drop those exchanges
handle_session_undoUndo(p) ==
    /\ task[p].pc = "undo"
    /\ LET from == IndexOf(task[p].session, task[p].exchange_id)
       IN  /\ files' = RestoreFrom(task[p].session, from, files)
           /\ task' = [task EXCEPT ![p].session = TrimFrom(@, from),
                                   ![p].pc = "save_create",
                                   ![p].ret = "done"]
    /\ UNCHANGED <<storage, running_exchanges, cancelled, editor, ops,
                   before, last_cancel>>

set_exchange_as_cancelledSignal(session, exchange_id) ==
    [session |-> Session_set_exchange_as_cancelled(session, exchange_id),
     send_cancellation_signal |->
         get_exchange_by_id(session, exchange_id) # NoExchange]

set_exchange_as_cancelledAll(session, exchange_id) ==
    [session |-> [i \in 1..Len(session) |->
                     [session[i] EXCEPT !.status = "Cancelled"]],
     send_cancellation_signal |-> has_running_code_edits(session, exchange_id)]

\* has_running_code_edits on the loaded session, then
\* Session::set_exchange_as_cancelled
set_exchange_as_cancelled(session, exchange_id) ==
    [session |-> Session_set_exchange_as_cancelled(session, exchange_id),
     send_cancellation_signal |-> has_running_code_edits(session, exchange_id)]

\* returns the error of load_from_storage when there is no stored session
set_exchange_as_cancelledLoad(p) ==
    /\ task[p].pc = "load" /\ task[p].op = "cancel_running_exchange"
    /\ Loaded.r # "panic"
    /\ IF Loaded.r = "err"
       THEN /\ task' = [task EXCEPT ![p] = Finish(@, "err")]
            /\ last_cancel' = NoCancel
       ELSE LET out == set_exchange_as_cancelled(Loaded.session,
                                                 task[p].exchange_id)
            IN  /\ task' = [task EXCEPT
                     ![p].loaded = Loaded.session,
                     ![p].found = TRUE,
                     ![p].twice = (last_cancel.exchange_id = task[p].exchange_id),
                     ![p].session = out.session,
                     ![p].result = IF out.send_cancellation_signal
                                   THEN "true" ELSE "false",
                     ![p].pc = "save_create",
                     ![p].ret = "done"]
                /\ UNCHANGED last_cancel
    /\ UNCHANGED <<storage, running_exchanges, cancelled, editor, files,
                   ops, before>>

\* tool_box.create_new_exchange(..)? fails: the operation returns the error
create_new_exchangeErr(p) ==
    /\ task[p].pc = "mint"
    /\ task' = [task EXCEPT ![p] = Finish(@, "err")]
    /\ UNCHANGED <<storage, running_exchanges, cancelled, editor, files,
                   ops, before, last_cancel>>

AssistantKindOf(op) ==
    IF op = "human_message" THEN "AssistantChat"
    ELSE IF op = "plan_generation" THEN "AssistantPlan"
    ELSE "AssistantEdit"

\* SymbolEventMessageProperties::set_request_id
set_request_id(message_properties, request_id) ==
    [message_properties EXCEPT !.request_id = request_id]

\* SymbolEventMessageProperties::set_cancellation_token
set_cancellation_token(message_properties, cancellation_token) ==
    [message_properties EXCEPT !.token = cancellation_token]

cancellation_tokenNew(message_properties) == NoToken

\* SymbolEventMessageProperties::cancellation_token: a clone of the token of
\* the properties, which is cancelled when that token is
cancellation_token(message_properties) == message_properties.token

\* human_message, plan_generation, code_edit_agentic, code_edit_anchored:
\* mint the reply's exchange id, make a token, track_exchange, put both in
\* the message properties and enter the mode handler
\* (code_edit_anchored adds its human exchange, session.anchored_edit, here)
TrackAndEnter(p) ==
    /\ task[p].pc = "mint" /\ task[p].op \in ModeOps
    /\ LET id    == ExchangeId(editor + 1)
           token == ExchangeToken(editor + 1)
           human == IF task[p].op = "code_edit_anchored"
                    THEN AppendHuman(task[p].session, task[p].exchange_id,
                                     "HumanAnchoredEdit")
                    ELSE task[p].session
       IN  /\ editor' = editor + 1
           /\ running_exchanges' =
                 track_exchange(running_exchanges, SessionId, id, token)
           /\ before' = Put(before, id, files)
           /\ task' = [task EXCEPT ![p] =
                 [set_cancellation_token(set_request_id(@, id), token) EXCEPT
                    !.session = AppendAssistant(human, id,
                                    AssistantKindOf(task[p].op),
                                    task[p].exchange_id),
                    !.pc = IF task[p].op = "code_edit_agentic" THEN "llm"
                           ELSE "handler"]]
    /\ UNCHANGED <<storage, cancelled, files, ops, last_cancel>>

\* plan_iteration after its first save: a new token in the message
\* properties, request id = the exchange id of the request, then
\* perform_plan_generation on that exchange
plan_iterationEnter(p) ==
    /\ task[p].pc = "retoken"
    /\ task' = [task EXCEPT ![p] =
          [set_cancellation_token(set_request_id(@, task[p].exchange_id),
                                  IterationToken(ops)) EXCEPT
             !.session = SetStatus(@, task[p].exchange_id, Statuses, "Running"),
             !.pc = "handler"]]
    /\ UNCHANGED <<storage, running_exchanges, cancelled, editor, files, ops,
                   before, last_cancel>>

\* feedback_for_exchange with accepted: mint the follow-up exchange id, then
\* return Ok(()) when the session has no last exchange or no edited file
feedback_for_exchangeFollowUp(p) ==
    /\ task[p].pc = "mint" /\ task[p].op = "feedback_for_exchange"
    /\ editor' = editor + 1
    /\ IF \/ last_exchange(task[p].session) = NoExchange
          \/ find_last_edited_file(task[p].session) = "none"
       THEN task' = [task EXCEPT ![p] =
                        Finish([@ EXCEPT !.request_id = ExchangeId(editor + 1)],
                               "ok")]
       ELSE task' = [task EXCEPT ![p].request_id = ExchangeId(editor + 1),
                                 ![p].pc = "diags"]
    /\ UNCHANGED <<storage, running_exchanges, cancelled, files, ops,
                   before, last_cancel>>

\* get_lsp_diagnostics_for_files: on Err the operation returns Ok(())
feedback_for_exchangeDiags(p) ==
    /\ task[p].pc = "diags"
    /\ \E diags \in BOOLEAN :
          IF diags
          THEN task' = [task EXCEPT ![p].pc = "save_create", ![p].ret = "done"]
          ELSE task' = [task EXCEPT ![p] = Finish(@, "ok")]
    /\ UNCHANGED <<storage, running_exchanges, cancelled, editor, files,
                   ops, before, last_cancel>>

\* reply_to_last_exchange / perform_plan_generation / perform_anchored_edit
\* resolve: with an error (`?`), or with the session; a handler whose token
\* was cancelled leaves its exchange as it is, the others finish it, the
\* anchored edit after editing the selection's file
HandlerReturn(p) ==
    /\ task[p].pc = "handler"
    /\ \E ok \in BOOLEAN :
          IF ~ok
          THEN /\ task' = [task EXCEPT ![p] = Finish(@, "err")]
               /\ UNCHANGED files
          ELSE IF cancellation_token(task[p]) \in cancelled
          THEN /\ task' = [task EXCEPT ![p].pc = "save_create", ![p].ret = "done"]
               /\ UNCHANGED files
          ELSE IF task[p].op = "code_edit_anchored"
          THEN /\ files' = [files EXCEPT ![task[p].path] = @ + 1]
               /\ task' = [task EXCEPT
                     ![p].session = FinishExchange(
                                       CaptureSnapshot(@, task[p].request_id,
                                           task[p].path, files[task[p].path]),
                                       task[p].request_id),
                     ![p].pc = "save_create", ![p].ret = "done"]
          ELSE /\ task' = [task EXCEPT
                     ![p].session = FinishExchange(@, task[p].request_id),
                     ![p].pc = "save_create", ![p].ret = "done"]
               /\ UNCHANGED files
    /\ UNCHANGED <<storage, running_exchanges, cancelled, editor, ops,
                   before, last_cancel>>

(* ------------------------------ tool-use loop -------------------------- *)

Replies == {"read_file", "code_edit_input", "attempt_completion", "failure",
            "llm_error"}

ToolUseAgentInvokeDeaf(is_cancelled, reply) == reply

\* ToolUseAgent::invoke: run_with_cancellation gives None once the token is
\* cancelled, and the reply of the completion otherwise
ToolUseAgentInvoke(is_cancelled, reply) ==
    IF is_cancelled THEN "cancelled" ELSE reply

\* one turn of perform_agentic_editing: ask the agent for the next tool; a
\* tool is invoked right away; attempt_completion, a provider error and a
\* cancellation end the loop, an unparsable reply is fed back
AgentTurn(p) ==
    /\ task[p].pc = "llm"
    /\ \E reply \in Replies, path \in Paths, propagated \in BOOLEAN :
          LET out == ToolUseAgentInvoke(cancellation_token(task[p]) \in cancelled,
                                        reply)
          IN  /\ task[p].turns < MaxTurns
                    \/ reply \in {"attempt_completion", "llm_error"}
              /\ out = "code_edit_input" \/ path = "a.rs"
              /\ out = "cancelled" \/ ~propagated
              /\ task' = [task EXCEPT ![p] =
                    IF out = "cancelled"
                    THEN IF propagated THEN Finish(@, "err")
                         ELSE [@ EXCEPT !.pc = "save_create", !.ret = "done"]
                    ELSE IF out = "attempt_completion"
                    THEN [@ EXCEPT !.session =
                                       FinishExchange(@, task[p].request_id),
                                   !.tool = out,
                                   !.pc = "save_create", !.ret = "done"]
                    ELSE IF out = "llm_error"
                    THEN [@ EXCEPT !.session =
                                       SetStatus(@, task[p].request_id,
                                                 {"Running"}, "Completed"),
                                   !.tool = out,
                                   !.pc = "save_create", !.ret = "done"]
                    ELSE IF out = "failure"
                    THEN [@ EXCEPT !.turns = @ + 1]
                    ELSE [@ EXCEPT !.tool = out, !.path = path,
                                   !.tools = @ + 1, !.pc = "tool"]]
    /\ UNCHANGED <<storage, running_exchanges, cancelled, editor, files,
                   ops, before, last_cancel>>

\* the tool resolves; a code edit that was not cancelled has changed its
\* file, after the exchange captured the file's content
ToolReturn(p) ==
    /\ task[p].pc = "tool"
    /\ IF task[p].tool = "code_edit_input"
          /\ cancellation_token(task[p]) \notin cancelled
       THEN /\ files' = [files EXCEPT ![task[p].path] = @ + 1]
            /\ task' = [task EXCEPT
                  ![p].session = CaptureSnapshot(@, task[p].request_id,
                                     task[p].path, files[task[p].path]),
                  ![p].turns = @ + 1, ![p].tool = "none", ![p].pc = "llm"]
       ELSE /\ task' = [task EXCEPT ![p].turns = @ + 1, ![p].tool = "none",
                                    ![p].pc = "llm"]
            /\ UNCHANGED files
    /\ UNCHANGED <<storage, running_exchanges, cancelled, editor, ops,
                   before, last_cancel>>

(* ------------------------------ save_to_storage ------------------------ *)

\* tokio::fs::File::create(session.storage_path())
SaveCreate(p) ==
    /\ task[p].pc = "save_create"
    /\ storage' = FileCreate(storage)
    /\ task' = [task EXCEPT ![p].off = 0, ![p].pc = "save_write"]
    /\ UNCHANGED <<running_exchanges, cancelled, editor, files, ops,
                   before, last_cancel>>

\* file.write_all(serialized): one write call per step; the first call may
\* be short, the next one writes what is left; after the last one the
\* operation goes on, or returns
SaveWrite(p) ==
    /\ task[p].pc = "save_write"
    /\ LET data == Serialize(task[p].session)
       IN  \E n \in {1, Len(data) - task[p].off} :
              LET off == IF task[p].off = 0 THEN n ELSE Len(data)
                  last == (off = Len(data))
              IN  /\ storage' = [storage EXCEPT !.content =
                        WriteAt(@, task[p].off,
                                SubSeq(data, task[p].off + 1, off))]
                  /\ task' = [task EXCEPT ![p] =
                        IF ~last THEN [@ EXCEPT !.off = off]
                        ELSE IF task[p].ret = "done"
                        THEN Finish([@ EXCEPT !.off = off],
                                    IF task[p].result = "none" THEN "ok"
                                    ELSE task[p].result)
                        ELSE [@ EXCEPT !.off = off, !.pc = task[p].ret]]
                  /\ last_cancel' =
                        IF last /\ task[p].op = "cancel_running_exchange"
                        THEN [exchange_id |-> task[p].exchange_id,
                              content |-> storage'.content]
                        ELSE last_cancel
    /\ UNCHANGED <<running_exchanges, cancelled, editor, files, ops,
                   before>>

\* the operation has returned and the task ends
Return(p) ==
    /\ task[p].pc = "done"
    /\ task' = [task EXCEPT ![p] = Idle]
    /\ UNCHANGED <<storage, running_exchanges, cancelled, editor, files,
                   ops, before, last_cancel>>

(* ------------------------------ specifications ------------------------- *)

\* session-service operations one after the other
SeqNext ==
    /\ UNCHANGED <<stream, caller, parser, accumulator, agent_vars>>
    /\ \/ \E p \in Procs, op \in ModeOps, selection \in BOOLEAN :
             /\ selection \/ op = "code_edit_anchored"
             /\ Serial(p)
             /\ StartMode(p, op, selection)
       \/ \E p \in Procs, op \in RefOps, id \in KnownIds, accepted \in BOOLEAN :
             /\ ~accepted \/ op = "feedback_for_exchange"
             /\ Serial(p)
             /\ StartRef(p, op, id, accepted)
       \/ \E p \in Procs, id \in KnownIds : StartCancel(p, id)
       \/ \E p \in Procs : CancelToken(p)
       \/ \E p \in Procs : Serial(p) /\ human_messageLoad(p)
       \/ \E p \in Procs : Serial(p) /\ plan_generationLoad(p)
       \/ \E p \in Procs : Serial(p) /\ plan_iterationLoad(p)
       \/ \E p \in Procs : Serial(p) /\ code_edit_agenticLoad(p)
       \/ \E p \in Procs : Serial(p) /\ code_edit_anchoredLoad(p)
       \/ \E p \in Procs : Serial(p) /\ feedback_for_exchangeLoad(p)
       \/ \E p \in Procs : Serial(p) /\ handle_session_undoLoad(p)
       \/ \E p \in Procs : Serial(p) /\ set_exchange_as_cancelledLoad(p)
       \/ \E p \in Procs : code_edit_anchoredFileOpen(p)
       \/ \E p \in Procs : handle_session_undoUndo(p)
       \/ \E p \in Procs : create_new_exchangeErr(p)
       \/ \E p \in Procs : TrackAndEnter(p)
       \/ \E p \in Procs : plan_iterationEnter(p)
       \/ \E p \in Procs : feedback_for_exchangeFollowUp(p)
       \/ \E p \in Procs : feedback_for_exchangeDiags(p)
       \/ \E p \in Procs : HandlerReturn(p)
       \/ \E p \in Procs : AgentTurn(p)
       \/ \E p \in Procs : ToolReturn(p)
       \/ \E p \in Procs : SaveCreate(p)
       \/ \E p \in Procs : SaveWrite(p)
       \/ \E p \in Procs : Return(p)

SpecSeq == Init /\ [][SeqNext]_vars

ConcOps == {"human_message", "code_edit_agentic"}

\* the tasks as tokio runs them: any interleaving of their steps
Next ==
    /\ UNCHANGED <<stream, caller, parser, accumulator, agent_vars>>
    /\ \/ \E p \in Procs, op \in ConcOps : ops < MaxRace /\ StartMode(p, op, TRUE)
       \/ \E p \in Procs, id \in KnownIds : ops < MaxRace /\ StartCancel(p, id)
       \/ \E p \in Procs : CancelToken(p)
       \/ \E p \in Procs : LoadPanic(p)
       \/ \E p \in Procs : human_messageLoad(p)
       \/ \E p \in Procs : code_edit_agenticLoad(p)
       \/ \E p \in Procs : set_exchange_as_cancelledLoad(p)
       \/ \E p \in Procs : create_new_exchangeErr(p)
       \/ \E p \in Procs : TrackAndEnter(p)
       \/ \E p \in Procs : HandlerReturn(p)
       \/ \E p \in Procs : AgentTurn(p)
       \/ \E p \in Procs : ToolReturn(p)
       \/ \E p \in Procs : SaveCreate(p)
       \/ \E p \in Procs : SaveWrite(p)
       \/ \E p \in Procs : Return(p)

Spec == Init /\ [][Next]_vars

\* a step of task p once its request has been accepted
Step(p) ==
    /\ UNCHANGED <<stream, caller, parser, accumulator, agent_vars>>
    /\ \/ CancelToken(p)
       \/ LoadPanic(p)
       \/ human_messageLoad(p)
       \/ code_edit_agenticLoad(p)
       \/ set_exchange_as_cancelledLoad(p)
       \/ create_new_exchangeErr(p)
       \/ TrackAndEnter(p)
       \/ HandlerReturn(p)
       \/ AgentTurn(p)
       \/ ToolReturn(p)
       \/ SaveCreate(p)
       \/ SaveWrite(p)
       \/ Return(p)

\* the runtime keeps polling every task that can make progress
FairSpec == Spec /\ \A p \in Procs : WF_vars(Step(p))

(* ------------------------------ claims --------------------------------- *)

Cancelling(p) == task[p].op = "cancel_running_exchange"

Returned(p) == task[p].pc = "done"

Returns(p) == task[p].pc # "done" /\ task'[p].pc = "done"

Quiet == \A p \in Procs : task[p].pc \in {"idle", "done"}

\* C1: a set_exchange_as_cancelled call that found the stored session leaves
\* it with the same exchanges, the status of the named exchange changed to
\* Cancelled if it was Running and every other status as it was; a call that
\* found no stored session leaves none.
C1_CancelOnlyRunning ==
    [][\A p \in Procs :
          Cancelling(p) /\ Returns(p) /\ task'[p].result # "no_token" =>
              IF task[p].found
              THEN /\ Loaded'.r = "ok"
                   /\ Len(Loaded'.session) = Len(task[p].loaded)
                   /\ \A i \in 1..Len(task[p].loaded) :
                         LET old == task[p].loaded[i]
                         IN  Loaded'.session[i] =
                                IF old.exchange_id = task[p].exchange_id
                                   /\ old.status = "Running"
                                THEN [old EXCEPT !.status = "Cancelled"]
                                ELSE old
              ELSE ~storage'.exists]_vars

C1_Witness ==
    \E p \in Procs :
        /\ Cancelling(p) /\ Returned(p) /\ task[p].found
        /\ get_exchange_by_id(task[p].loaded, task[p].exchange_id).status = "Running"
        /\ get_exchange_by_id(Loaded.session, task[p].exchange_id).status = "Cancelled"
        /\ \E i \in 1..Len(task[p].loaded) : task[p].loaded[i].status = "Completed"

\* C2: when set_exchange_as_cancelled returns for the second time in a row
\* for the same exchange, the stored document is the one the first call
\* left and the call returns false.
C2_CancelTwice ==
    [][\A p \in Procs :
          /\ Cancelling(p) /\ task[p].twice
          /\ last_cancel.exchange_id = task[p].exchange_id
          /\ task[p].pc = "save_write" /\ task'[p].pc = "done"
          => /\ storage'.content = last_cancel.content
             /\ task'[p].result = "false"]_vars

C2_Witness ==
    \E p \in Procs :
        /\ Cancelling(p) /\ Returned(p) /\ task[p].twice
        /\ task[p].result = "false"
        /\ LET e == get_exchange_by_id(task[p].loaded, task[p].exchange_id)
           IN  e.status = "Cancelled" /\ DOMAIN e.pre_edit_snapshot # {}

\* C3: while a mode handler runs, the token in its message properties is the
\* one running_exchanges holds for (session id, request id of the properties).
C3_TokenRegistered ==
    \A p \in Procs :
        task[p].pc \in {"handler", "llm", "tool"} =>
            get_cancellation_token(running_exchanges, SessionId,
                                   task[p].request_id) = task[p].token

InLoop(p) == task[p].pc \in {"llm", "tool"}

NoToolAfterCancel ==
    [][\A p \in Procs :
          InLoop(p) /\ task[p].token \in cancelled =>
              task'[p].tools = task[p].tools]_vars

LoopEndsAfterCancel ==
    \A p \in Procs : (InLoop(p) /\ task[p].token \in cancelled) ~> ~InLoop(p)

C5_CancelPersisted ==
    \A p, q \in Procs :
        /\ Cancelling(p) /\ Returned(p) /\ task[p].result # "no_token"
        /\ task[q].op = "code_edit_agentic" /\ Returned(q)
        /\ task[q].result = "ok"
        /\ task[q].token \in cancelled
        /\ task[q].request_id = task[p].exchange_id
        /\ get_exchange_by_id(task[q].session, task[q].request_id).status = "Running"
        /\ Quiet
        => /\ Loaded.r = "ok"
           /\ get_exchange_by_id(Loaded.session, task[p].exchange_id).status
                 = "Cancelled"

\* C6: when two human_message calls on the session have both returned Ok, the
\* stored session has the human exchange of each.
C6_BothChangesStored ==
    \A p, q \in Procs :
        /\ p # q
        /\ task[p].op = "human_message" /\ Returned(p) /\ task[p].result = "ok"
        /\ task[q].op = "human_message" /\ Returned(q) /\ task[q].result = "ok"
        /\ Quiet
        => /\ Loaded.r = "ok"
           /\ IndexOf(Loaded.session, task[p].exchange_id) # 0
           /\ IndexOf(Loaded.session, task[q].exchange_id) # 0

\* C7: whenever an operation is about to read the session file and the file
\* exists, the file holds a complete document.
C7_AtomicWrites ==
    \A p \in Procs :
        task[p].pc = "load" /\ storage.exists => Parses(storage.content)

\* C8: when a session-service operation returns after changing the session
\* it loaded (or created), the stored session is the changed one.
C8_WriteThrough ==
    [][\A p \in Procs :
          /\ Returns(p)
          /\ task'[p].result \in {"ok", "err", "true", "false"}
          /\ task'[p].session # task'[p].loaded
          => /\ Loaded'.r = "ok"
             /\ Loaded'.session = task'[p].session]_vars

Removed(session, from) ==
    IF from = 0 THEN {} ELSE {session[i] : i \in from..Len(session)}

Captured(session, from) ==
    UNION {DOMAIN e.pre_edit_snapshot : e \in Removed(session, from)}

Undoing(p) == task[p].op = "handle_session_undo"

MaxEvents == 3

\* pieces of one reply handed to parse_out_tool_input
MaxReply == 5

\* a text is a sequence of pieces: an opening tag, a closing tag, or an
\* fs_file_path element, the one field of the read_file input
Tags == {"thinking", "read_file", "get_diagnostics"}

Open(tag) == <<"<", tag>>

Close(tag) == <<"</", tag>>

Body(b) == <<"body", b>>

\* Option<T>: None, Some(x)
None == << >>

Some(x) == <<x>>

(* ------------------------------ OpenRouterClient ----------------------- *)

\* delta.content of the chunks the provider sends
Contents ==
    {<<Open("read_file"), Body("fs_file_path")>>, <<Close("read_file")>>}

\* ToolCall with function_details: index, id, function.name, function.arguments
ToolCall(index, id, name, arguments) ==
    [index |-> index, id |-> id, name |-> name, arguments |-> arguments]

ToolCalls ==
    {ToolCall(0, Some("call_0"), Some("f"), Some(<<"x">>)),
     ToolCall(0, None, None, Some(<<"y">>)),
     ToolCall(1, Some("call_1"), Some("g"), Some(<<"z">>))}

Event(type, content, finish_reason, tool_calls) ==
    [type |-> type, content |-> content, finish_reason |-> finish_reason,
     tool_calls |-> tool_calls]

\* what response_stream.next() yields: a transport error, "[DONE]", a payload
\* that is no OpenRouterResponse, a response without choices, or a response
\* whose first choice has a content, a finish_reason or tool_calls
Events ==
    {Event(t, None, None, None) :
        t \in {"error", "done", "malformed", "no_choices"}}
    \cup {Event("choice", Some(c), None, None) : c \in Contents}
    \cup {Event("choice", None, Some(f), None) : f \in {"stop", "tool_use"}}
    \cup {Event("choice", None, None, Some(<<c>>)) : c \in ToolCalls}
    \cup {Event("choice", None, Some("tool_use"),
                Some(<<ToolCall(0, None, None, Some(<<"y">>))>>))}

StartedStream(with_tool) ==
    [with_tool |-> with_tool, status |-> "streaming", received |-> << >>,
     buffered_stream |-> << >>, sent |-> << >>,
     tool_use_indication |-> << >>, current_tool_use |-> None,
     current_tool_use_id |-> None, running_tool_input |-> << >>,
     pending |-> << >>]

AccumulateLast(buffered_stream, content) == content

\* buffered_stream = buffered_stream + &content
Accumulate(buffered_stream, content) == buffered_stream \o content

\* LLMClientCompletionResponse::new(buffered_stream, Some(content), model)
LLMClientCompletionResponse(answer_up_until_now, delta) ==
    [answer_up_until_now |-> answer_up_until_now, delta |-> delta]

\* `if let Some(content) = first_choice.delta.content`: grow the buffer and
\* send it with the delta
SendDelta(st, content) ==
    IF content = None THEN st
    ELSE LET buffered == Accumulate(st.buffered_stream, content[1])
         IN  [st EXCEPT !.buffered_stream = buffered,
                        !.sent = Append(@, LLMClientCompletionResponse(
                                               buffered, content[1]))]

EmitsToolCallOnFinish(finish_reason) == finish_reason # None

\* `if let Some(finish_reason) = .. { if finish_reason == "tool_use" {`
EmitsToolCall(finish_reason) == finish_reason = Some("tool_use")

\* push (name, (id, running_tool_input)) when both name and id are known,
\* then empty the trackers; pieces remembers the chunks that made the input
FlushToolUse(st, finish_reason) ==
    IF ~EmitsToolCall(finish_reason) THEN st
    ELSE [st EXCEPT
            !.tool_use_indication =
                IF st.current_tool_use # None /\ st.current_tool_use_id # None
                THEN Append(@, [name |-> st.current_tool_use[1],
                                id |-> st.current_tool_use_id[1],
                                arguments |-> st.running_tool_input,
                                pieces |-> st.pending])
                ELSE @,
            !.current_tool_use = None,
            !.running_tool_input = << >>,
            !.current_tool_use_id = None,
            !.pending = << >>]

\* tool_calls.into_iter().for_each(..): one id, one name and one input for
\* all the tool calls, whatever their index
RECURSIVE MergeToolCalls(_, _)
MergeToolCalls(st, tool_calls) ==
    IF tool_calls = << >> THEN st
    ELSE LET c == Head(tool_calls)
             next == [st EXCEPT
                        !.current_tool_use_id = IF c.id # None THEN c.id ELSE @,
                        !.current_tool_use = IF c.name # None THEN c.name ELSE @,
                        !.running_tool_input =
                            IF c.arguments # None THEN @ \o c.arguments[1] ELSE @,
                        !.pending =
                            IF c.arguments # None THEN Append(@, c) ELSE @]
         IN  MergeToolCalls(next, Tail(tool_calls))

\* the body of `while let Some(event) = response_stream.next().await`
OnEvent(st, e) ==
    LET got == [st EXCEPT !.received = Append(@, e)]
    IN  IF e.type \in {"error", "done"} THEN got
        ELSE IF e.type = "malformed" THEN [got EXCEPT !.status = "err"]
        ELSE IF e.type = "no_choices" THEN [got EXCEPT !.status = "panic"]
        ELSE LET told == SendDelta(got, e.content)
             IN  IF ~st.with_tool THEN told
                 ELSE MergeToolCalls(
                          FlushToolUse(told, e.finish_reason),
                          IF e.tool_calls = None THEN << >> ELSE e.tool_calls[1])

(* ------------------------------ parse_out_tool_input ------------------- *)

Pieces == {Open(t) : t \in Tags} \cup {Close(t) : t \in Tags}
              \cup {Body("fs_file_path")}

Texts == UNION {[1..n -> Pieces] : n \in 0..MaxReply}

\* the first place at or after from where piece is, 0 when there is none
RECURSIVE Find(_, _, _)
Find(input, piece, from) ==
    IF from > Len(input) THEN 0
    ELSE IF input[from] = piece THEN from
    ELSE Find(input, piece, from + 1)

\* re.captures_iter(input) for (?s)<(tags)>(.*?)</\1>: the leftmost opening
\* tag that has a closing tag of its name later on, up to the first such
\* closing tag; the scan goes on after it
RECURSIVE Captures(_, _)
Captures(input, from) ==
    IF from > Len(input) THEN << >>
    ELSE LET piece == input[from]
             close == IF piece[1] = "<"
                      THEN Find(input, Close(piece[2]), from + 1)
                      ELSE 0
         IN  IF close = 0 THEN Captures(input, from + 1)
             ELSE <<[tag |-> piece[2],
                     content |-> SubSeq(input, from + 1, close - 1)]>>
                      \o Captures(input, close + 1)

\* from_str(<root>content</root>) into the input of the tool: read_file
\* needs its fs_file_path and nothing else; get_diagnostics reads nothing
Deserialises(tag, content) ==
    \/ tag = "get_diagnostics"
    \/ tag = "read_file" /\ content = <<Body("fs_file_path")>>

Success(tool, content, thinking) ==
    [kind |-> "Success", tool |-> tool, content |-> content,
     thinking |-> thinking, text |-> << >>]

Failure(text) ==
    [kind |-> "Failure", tool |-> "none", content |-> << >>,
     thinking |-> << >>, text |-> text]

\* the loop over the captures: a thinking tag is remembered, the first tool
\* tag decides: Success when its body deserialises, Failure when it does not
RECURSIVE ParseCaptures(_, _, _)
ParseCaptures(input, captures, thinking) ==
    IF captures = << >> THEN Failure(input)
    ELSE LET capture == Head(captures)
         IN  IF capture.tag = "thinking"
             THEN ParseCaptures(input, Tail(captures), capture.content)
             ELSE IF Deserialises(capture.tag, capture.content)
             THEN Success(capture.tag, capture.content, thinking)
             ELSE Failure(input)

parse_out_tool_input(input) ==
    ParseCaptures(input, Captures(input, 1), << >>)

\* a reply is handed to the parser
ParseCall ==
    /\ parser.pc = "idle"
    /\ \E input \in Texts :
          parser' = [pc |-> "called", input |-> input, output |-> Failure(<< >>)]
    /\ UNCHANGED <<session_vars, stream, caller, accumulator, agent_vars>>

ParseReturn ==
    /\ parser.pc = "called"
    /\ parser' = [parser EXCEPT !.pc = "returned",
                                !.output = parse_out_tool_input(parser.input)]
    /\ UNCHANGED <<session_vars, stream, caller, accumulator, agent_vars>>

ParseNext == ParseCall \/ ParseReturn

SpecParse == Init /\ [][ParseNext]_vars

\* the outcome for the first tool tag of the reply whose body deserialises
RECURSIVE FirstValidTag(_, _, _)
FirstValidTag(input, captures, thinking) ==
    IF captures = << >> THEN Failure(input)
    ELSE LET capture == Head(captures)
         IN  IF capture.tag = "thinking"
             THEN FirstValidTag(input, Tail(captures), capture.content)
             ELSE IF Deserialises(capture.tag, capture.content)
             THEN Success(capture.tag, capture.content, thinking)
             ELSE FirstValidTag(input, Tail(captures), thinking)

\* C15: parse_out_tool_input returns Success with the tool input of the
\* first tool tag whose body deserialises, and Failure with the unmodified
\* reply only when no tag of the reply parses to a tool input.
C15_FirstValidToolTag ==
    parser.pc = "returned" =>
        LET first == FirstValidTag(parser.input, Captures(parser.input, 1), << >>)
        IN  /\ parser.output.kind = first.kind
            /\ parser.output.tool = first.tool
            /\ parser.output.content = first.content
            /\ parser.output.text = first.text

(* ------------------------------ callers of a completion --------------- *)

\* the caller of stream_completion: a direct call, ToolUseAgent::invoke or
\* SessionChatClient::invoke, with the cancellation token of its exchange,
\* what the poller took from the channel and the chat events it sent
StartedCaller(mode) ==
    [mode |-> mode, token_cancelled |-> FALSE, pc |-> "await_llm",
     taken |-> 0, ui |-> << >>, answer_up_until_now |-> << >>,
     result |-> "none", reply |-> << >>]

run_with_cancellationDeaf(is_cancelled, resolved) ==
    IF resolved THEN "Some" ELSE "pending"

\* run_with_cancellation(token, future): None once the token is cancelled,
\* Some(output) when the future resolves
run_with_cancellation(is_cancelled, resolved) ==
    IF is_cancelled THEN "None"
    ELSE IF resolved THEN "Some"
    ELSE "pending"

\* ToolUseAgent::invoke awaits the completion inside run_with_cancellation:
\* the completion advances only while that future is polled; the other
\* callers run it on its own
Polls ==
    caller.mode = "tool_use_agent" =>
        /\ caller.pc = "await_llm"
        /\ run_with_cancellation(caller.token_cancelled, FALSE) = "pending"

\* `match response { Some(result) => result.map_err(..).map(parse_out_tool_input) }`
ToolUseAgentOutput(st) ==
    IF st.status = "ok" THEN parse_out_tool_input(st.buffered_stream).kind
    ELSE IF st.status = "err" THEN "LLMClientError"
    ELSE "panic"

AfterPoll(c, st) ==
    IF c.mode = "tool_use_agent" /\ st.status # "streaming"
    THEN [c EXCEPT !.pc = "done", !.result = ToolUseAgentOutput(st)]
    ELSE c

StartCompletion ==
    /\ stream.status = "idle"
    /\ \E mode \in {"client", "tool_use_agent", "chat"}, with_tool \in BOOLEAN :
          /\ with_tool => mode = "client"
          /\ stream' = StartedStream(with_tool)
          /\ caller' = StartedCaller(mode)
    /\ UNCHANGED <<session_vars, parser, accumulator, agent_vars>>

\* no model for the request, no auth key, or the POST fails: `?`
RequestFails ==
    /\ stream.status = "streaming" /\ stream.received = << >>
    /\ Polls
    /\ stream' = [stream EXCEPT !.status = "err"]
    /\ caller' = AfterPoll(caller, stream')
    /\ UNCHANGED <<session_vars, parser, accumulator, agent_vars>>

StreamEvent ==
    /\ stream.status = "streaming"
    /\ Len(stream.received) < MaxEvents
    /\ Polls
    /\ \E e \in Events : stream' = OnEvent(stream, e)
    /\ caller' = AfterPoll(caller, stream')
    /\ UNCHANGED <<session_vars, parser, accumulator, agent_vars>>

\* response_stream.next() is None: Ok(buffered_stream)
StreamEnd ==
    /\ stream.status = "streaming"
    /\ Polls
    /\ stream' = [stream EXCEPT !.status = "ok"]
    /\ caller' = AfterPoll(caller, stream')
    /\ UNCHANGED <<session_vars, parser, accumulator, agent_vars>>

\* a holder of the exchange's token cancels it
CancelCompletion ==
    /\ caller.mode \in {"tool_use_agent", "chat"}
    /\ caller.pc # "done"
    /\ ~caller.token_cancelled
    /\ caller' = [caller EXCEPT !.token_cancelled = TRUE]
    /\ UNCHANGED <<session_vars, stream, parser, accumulator, agent_vars>>

\* ToolUseAgent::invoke: `None => Err(SymbolError::CancelledResponseStream)`;
\* the completion future is dropped with the select
ToolUseAgentCancelled ==
    /\ caller.mode = "tool_use_agent" /\ caller.pc = "await_llm"
    /\ run_with_cancellation(caller.token_cancelled, FALSE) = "None"
    /\ caller' = [caller EXCEPT !.pc = "done",
                                !.result = "CancelledResponseStream"]
    /\ stream' = [stream EXCEPT !.status = "dropped"]
    /\ UNCHANGED <<session_vars, parser, accumulator, agent_vars>>

\* SessionChatClient::invoke: `llm_response.await`, where llm_response is
\* run_with_cancellation over the JoinHandle of the spawned completion; the
\* handle is dropped on None and the spawned task runs on
ChatLlmResponse ==
    /\ caller.mode = "chat" /\ caller.pc = "await_llm"
    /\ run_with_cancellation(caller.token_cancelled,
                             stream.status # "streaming") # "pending"
    /\ caller' = [caller EXCEPT !.pc = "await_poll"]
    /\ UNCHANGED <<session_vars, stream, parser, accumulator, agent_vars>>

chat_eventDelta(stream_msg) ==
    [answer_up_until_now |-> stream_msg.delta, delta |-> stream_msg.delta]

\* UIEventWithID::chat_event(session id, exchange id, answer_up_until_now, delta)
chat_event(stream_msg) ==
    [answer_up_until_now |-> stream_msg.answer_up_until_now,
     delta |-> stream_msg.delta]

\* polling_llm_response: one message of the channel becomes one chat_event
ChatPoll ==
    /\ caller.mode = "chat"
    /\ caller.taken < Len(stream.sent)
    /\ LET stream_msg == stream.sent[caller.taken + 1]
       IN  caller' = [caller EXCEPT
                        !.taken = @ + 1,
                        !.answer_up_until_now = stream_msg.answer_up_until_now,
                        !.ui = Append(@, chat_event(stream_msg))]
    /\ UNCHANGED <<session_vars, stream, parser, accumulator, agent_vars>>

\* `polling_llm_response.await`: the poller ends when the channel is empty
\* and its sender, owned by the spawned completion, is gone
ChatReturn ==
    /\ caller.mode = "chat" /\ caller.pc = "await_poll"
    /\ stream.status # "streaming"
    /\ caller.taken = Len(stream.sent)
    /\ caller' = [caller EXCEPT !.pc = "done", !.result = "Ok",
                                !.reply = caller.answer_up_until_now]
    /\ UNCHANGED <<session_vars, stream, parser, accumulator, agent_vars>>

ClientNext ==
    \/ StartCompletion
    \/ RequestFails
    \/ StreamEvent
    \/ StreamEnd
    \/ CancelCompletion
    \/ ToolUseAgentCancelled
    \/ ChatLlmResponse
    \/ ChatPoll
    \/ ChatReturn

SpecClient == Init /\ [][ClientNext]_vars

\* a cancelled token wakes the task that selects on it
FairSpecClient == SpecClient /\ WF_vars(ToolUseAgentCancelled)

(* ------------------------------ claims on completions ------------------ *)

HasContent(e) == e.content # None

\* the contents of the events received, in the order received
ContentsOf(received) ==
    LET with == SelectSeq(received, HasContent)
    IN  [i \in 1..Len(with) |-> with[i].content[1]]

RECURSIVE Flatten(_)
Flatten(texts) ==
    IF texts = << >> THEN << >> ELSE Head(texts) \o Flatten(Tail(texts))

\* C11: the deltas sent are the contents received, in that order, and each
\* answer_up_until_now sent is the one sent before it followed by the delta.
C11_MonotonicText ==
    stream.status # "idle" =>
        /\ [i \in 1..Len(stream.sent) |-> stream.sent[i].delta]
              = ContentsOf(stream.received)
        /\ \A i \in 1..Len(stream.sent) :
              stream.sent[i].answer_up_until_now =
                  (IF i = 1 THEN << >>
                   ELSE stream.sent[i - 1].answer_up_until_now)
                      \o stream.sent[i].delta

C11_Witness ==
    /\ stream.status = "ok"
    /\ Len(stream.sent) = 2
    /\ Len(stream.received) = 3
    /\ stream.sent[1].delta # stream.sent[2].delta

\* the arguments of the pieces that carry index, in the order received
RECURSIVE ArgumentsOf(_, _)
ArgumentsOf(pieces, index) ==
    IF pieces = << >> THEN << >>
    ELSE (IF Head(pieces).index = index THEN Head(pieces).arguments[1]
          ELSE << >>) \o ArgumentsOf(Tail(pieces), index)

\* C12: the arguments of every tool call delivered are the concatenation of
\* the arguments pieces of one index received since the call before it.
C12_ArgumentsByIndex ==
    stream.status # "idle" =>
        \A k \in 1..Len(stream.tool_use_indication) :
            LET call == stream.tool_use_indication[k]
            IN  \E index \in {0, 1} :
                    call.arguments = ArgumentsOf(call.pieces, index)

ToolUseSignalled(e) == e.finish_reason = Some("tool_use")

\* C13: the tool-call list grows only on an event whose finish_reason is
\* "tool_use", and is empty as long as no such event was received.
C13_ToolCallOnlyOnToolUse ==
    /\ [][stream.status = "streaming"
            /\ stream'.tool_use_indication # stream.tool_use_indication
          => ToolUseSignalled(stream'.received[Len(stream'.received)])]_vars
    /\ [](stream.status # "idle"
            /\ SelectSeq(stream.received, ToolUseSignalled) = << >>
          => stream.tool_use_indication = << >>)

C13_Witness ==
    /\ stream.status = "ok"
    /\ Len(stream.tool_use_indication) = 1
    /\ Len(stream.received) = 3

\* C14: a completion that received events has returned Ok with the contents
\* of all the events it could decode, whatever undecodable events it got.
C14_BadEventSkipped ==
    stream.status \in {"ok", "err", "panic"} /\ stream.received # << >> =>
        /\ stream.status = "ok"
        /\ stream.buffered_stream = Flatten(ContentsOf(stream.received))

CancelledBeforeResolved ==
    /\ caller.mode = "tool_use_agent"
    /\ caller.token_cancelled
    /\ stream.status = "streaming"

\* C16: once the token is cancelled while the completion of
\* ToolUseAgent::invoke is pending, the completion reads no further event,
\* the call returns neither Success nor Failure, and it does return
\* CancelledResponseStream with the completion dropped.
C16_CancelledInvoke ==
    /\ [][CancelledBeforeResolved =>
             /\ stream'.status \in {"streaming", "dropped"}
             /\ stream'.received = stream.received
             /\ caller'.result \in {"none", "CancelledResponseStream"}]_vars
    /\ (CancelledBeforeResolved ~>
           /\ caller.mode = "tool_use_agent"
           /\ caller.result = "CancelledResponseStream"
           /\ stream.status = "dropped")

C16_Witness ==
    /\ caller.mode = "tool_use_agent"
    /\ caller.result = "CancelledResponseStream"
    /\ stream.status = "dropped"
    /\ parse_out_tool_input(stream.buffered_stream).kind = "Success"

\* C17: once the token of a chat completion is cancelled, the completion
\* reads no further event and no further chat_event is sent.
C17_PromptChatCancel ==
    [][caller.mode = "chat" /\ caller.token_cancelled =>
          /\ caller'.ui = caller.ui
          /\ stream'.received = stream.received]_vars

\* C18: when SessionChatClient::invoke has returned for a completion that
\* streamed the deltas d1..dn, it has sent n chat events, the i-th with the
\* text d1..di, and its reply is d1..dn.
C18_ChatEvents ==
    caller.mode = "chat" /\ caller.pc = "done" =>
        LET d == ContentsOf(stream.received)
        IN  /\ Len(caller.ui) = Len(d)
            /\ \A i \in 1..Len(d) :
                  /\ caller.ui[i].answer_up_until_now = Flatten(SubSeq(d, 1, i))
                  /\ caller.ui[i].delta = d[i]
            /\ caller.reply = Flatten(d)

C18_Witness ==
    /\ caller.mode = "chat" /\ caller.pc = "done"
    /\ Len(caller.ui) = 2
    /\ Len(caller.reply) = 3

(* ------------------------------ claims on the message properties ------ *)

\* the operations that were handed a copy of the message properties: the
\* mode handlers, the completion of the tool-use agent, the tool
HoldsProperties(p) == task[p].pc \in {"handler", "llm", "tool"}

MaxLines == 2

MaxBlocks == 2

MaxStream == 5

\* a line is its characters; code_lines are the pieces of the file between
\* its "\n", so a file that ends with "\n" has the line without characters
\* last, and code_lines.join("\n") is the file
Blank == << >>

Lines == {Blank, <<"a">>, <<"a", " ">>}

Files == UNION {[1..n -> Lines] : n \in 1..MaxLines}

Code == UNION {[1..n -> Lines] : n \in 0..MaxLines}

EmptyFile == <<Blank>>

EndsWithNewline(code_lines) ==
    Len(code_lines) >= 2 /\ code_lines[Len(code_lines)] = Blank

\* the lines of the edit stream that are not lines of code
SearchMarker == <<"<<<<<<< SEARCH">>

Divider == <<"=======">>

ReplaceMarker == <<">>>>>>> REPLACE">>

Prose == <<"prose">>

Fence(search, replace) ==
    <<SearchMarker>> \o search \o <<Divider>> \o replace \o <<ReplaceMarker>>

\* trailing-whitespace trim of one line
RECURSIVE Trim(_)
Trim(line) ==
    IF line # << >> /\ line[Len(line)] = " "
    THEN Trim(SubSeq(line, 1, Len(line) - 1))
    ELSE line

\* the search lines equal the lines of the file from `at` on, after the trim
MatchesAt(code_lines, search, at) ==
    /\ at + Len(search) - 1 <= Len(code_lines)
    /\ \A j \in 1..Len(search) :
          Trim(code_lines[at + j - 1]) = Trim(search[j])

Matches(code_lines, search) ==
    {at \in 1..(Len(code_lines) + 1) : MatchesAt(code_lines, search, at)}

Splice(code_lines, at, len, replace) ==
    SubSeq(code_lines, 1, at - 1) \o replace
        \o SubSeq(code_lines, at + len, Len(code_lines))

\* the replace lines go after the last line of the file that "\n" ends
AppendAtEnd(code_lines, replace) ==
    IF code_lines # << >> /\ code_lines[Len(code_lines)] = Blank
    THEN SubSeq(code_lines, 1, Len(code_lines) - 1) \o replace \o <<Blank>>
    ELSE code_lines \o replace

PreserveNewlineNever(original, code_lines) == code_lines

\* a file that ended with "\n" still does after the block
PreserveNewline(original, code_lines) ==
    IF EndsWithNewline(original) /\ ~EndsWithNewline(code_lines)
    THEN (IF code_lines = << >> THEN EmptyFile ELSE code_lines) \o <<Blank>>
    ELSE code_lines

ApplyBlockAtEnd(original, code_lines, search, replace) ==
    [code_lines |-> code_lines \o replace, miss |-> FALSE]

ApplyBlockFirstMatch(original, code_lines, search, replace) ==
    IF search = << >>
    THEN [code_lines |-> AppendAtEnd(code_lines, replace), miss |-> FALSE]
    ELSE IF Matches(code_lines, search) # {}
    THEN [code_lines |->
              PreserveNewline(original,
                  Splice(code_lines,
                         CHOOSE at \in Matches(code_lines, search) :
                             \A other \in Matches(code_lines, search) :
                                 at <= other,
                         Len(search), replace)),
          miss |-> FALSE]
    ELSE [code_lines |-> code_lines, miss |-> TRUE]

\* `>>>>>>> REPLACE`: an empty search appends the replace at the end of the
\* file; a search that matches exactly once is replaced in place; any other
\* search is an EditBlockMiss and leaves the file as it is
ApplyBlock(original, code_lines, search, replace) ==
    IF search = << >>
    THEN [code_lines |-> AppendAtEnd(code_lines, replace), miss |-> FALSE]
    ELSE IF Cardinality(Matches(code_lines, search)) = 1
    THEN [code_lines |->
              PreserveNewline(original,
                  Splice(code_lines,
                         CHOOSE at \in Matches(code_lines, search) : TRUE,
                         Len(search), replace)),
          miss |-> FALSE]
    ELSE [code_lines |-> code_lines, miss |-> TRUE]

OnLineOneBuffer(acc, line) ==
    IF acc.state = "Idle"
    THEN IF line = SearchMarker
         THEN [acc EXCEPT !.state = "InSearch", !.search = << >>,
                          !.replace = << >>]
         ELSE acc
    ELSE IF acc.state = "InSearch"
    THEN IF line = Divider
         THEN [acc EXCEPT !.state = "InReplace"]
         ELSE [acc EXCEPT !.search = Append(@, line)]
    ELSE IF line = ReplaceMarker
    THEN LET out == ApplyBlock(acc.original, acc.code_lines, acc.search,
                               acc.search)
         IN  [acc EXCEPT
                !.state = "Idle",
                !.code_lines = out.code_lines,
                !.misses = @ + (IF out.miss THEN 1 ELSE 0),
                !.blocks = Append(@, [search |-> acc.search,
                                      replace |-> acc.search,
                                      miss |-> out.miss])]
    ELSE [acc EXCEPT !.search = Append(@, line)]

\* one line of the edit stream:
\*   Idle      `<<<<<<< SEARCH` -> InSearch, the search buffer reset
\*   Idle      any other        -> Idle, the text is discarded
\*   InSearch  `=======`        -> InReplace
\*   InSearch  any other        -> InSearch, appended to the search buffer
\*   InReplace `>>>>>>> REPLACE`-> the block is applied, Idle
\*   InReplace any other        -> InReplace, appended to the replace buffer
OnLine(acc, line) ==
    IF acc.state = "Idle"
    THEN IF line = SearchMarker
         THEN [acc EXCEPT !.state = "InSearch", !.search = << >>,
                          !.replace = << >>]
         ELSE acc
    ELSE IF acc.state = "InSearch"
    THEN IF line = Divider
         THEN [acc EXCEPT !.state = "InReplace"]
         ELSE [acc EXCEPT !.search = Append(@, line)]
    ELSE IF line = ReplaceMarker
    THEN LET out == ApplyBlock(acc.original, acc.code_lines, acc.search,
                               acc.replace)
         IN  [acc EXCEPT
                !.state = "Idle",
                !.code_lines = out.code_lines,
                !.misses = @ + (IF out.miss THEN 1 ELSE 0),
                !.blocks = Append(@, [search |-> acc.search,
                                      replace |-> acc.replace,
                                      miss |-> out.miss])]
    ELSE [acc EXCEPT !.replace = Append(@, line)]

RECURSIVE OnLines(_, _)
OnLines(acc, lines) ==
    IF lines = << >> THEN acc
    ELSE OnLines(OnLine(acc, Head(lines)), Tail(lines))

\* SearchAndReplaceAccumulator::new(code, 0, sender); the deltas of the
\* stream come a block at a time or a line at a time
AccumulatorNew ==
    /\ accumulator.pc = "idle"
    /\ \E code \in Files, granularity \in {"block", "line"} :
          accumulator' = [pc |-> "open", granularity |-> granularity,
                          original |-> code, code_lines |-> code,
                          state |-> "Idle",
                          search |-> << >>, replace |-> << >>,
                          received |-> << >>, blocks |-> << >>,
                          misses |-> 0]
    /\ UNCHANGED <<session_vars, stream, caller, parser, agent_vars>>

\* add_delta with one whole block
AddDelta ==
    /\ accumulator.pc = "open" /\ accumulator.granularity = "block"
    /\ Len(accumulator.blocks) < MaxBlocks
    /\ \E search \in Code, replace \in Code :
          LET delta == Fence(search, replace)
          IN  accumulator' =
                  [OnLines(accumulator, delta) EXCEPT
                      !.received = accumulator.received \o delta]
    /\ UNCHANGED <<session_vars, stream, caller, parser, agent_vars>>

\* add_delta with one line of the stream
AddLine ==
    /\ accumulator.pc = "open" /\ accumulator.granularity = "line"
    /\ Len(accumulator.received) < MaxStream
    /\ \E line \in {SearchMarker, Divider, ReplaceMarker, Prose, <<"a">>} :
          accumulator' =
              [OnLine(accumulator, line) EXCEPT
                  !.received = Append(accumulator.received, line)]
    /\ UNCHANGED <<session_vars, stream, caller, parser, agent_vars>>

EditNext == AccumulatorNew \/ AddDelta \/ AddLine

SpecEdit == Init /\ [][EditNext]_vars

(* ------------------------------ ScratchPadAgent ------------------------ *)

MaxEnvironment == 3

MaxSymbols == 101

\* .buffer_unordered(100)
MaxConcurrentEdits == 100

EnvironmentEvents == {"LSP", "Anchor", "Followup", "Symbol", "ShutDown"}

\* how many symbols symbol_to_edit_request finds for an anchor
SymbolCounts == {0, 1, MaxSymbols}

BreaksNever(event) == FALSE

\* EnvironmentEventType::ShutDown => break
Breaks(event) == event = "ShutDown"

CanPollAny(in_flight) == TRUE

\* buffer_unordered polls one more future only while fewer than its limit
\* are in flight
CanPoll(in_flight) == in_flight < MaxConcurrentEdits

\* process_envrionment is called with the stream of environment events
process_envrionment ==
    /\ scratch_pad.pc = "idle"
    /\ scratch_pad' = [pc |-> "next", stream |-> << >>, enqueued |-> << >>,
                       closed |-> FALSE, handled |-> << >>,
                       to_send |-> 0, in_flight |-> 0, edits_done |-> 0,
                       code_iteration_finished |-> 0]
    /\ UNCHANGED <<session_vars, stream, caller, parser, accumulator, invocation,
                   sse, web_vars>>

\* a holder of the stream's sender puts an event in the channel (the loop
\* does not look at the channel while it fans out, so an event sent then is
\* an event sent when the fan-out is over)
EnvironmentSend ==
    /\ scratch_pad.pc = "next"
    /\ ~scratch_pad.closed
    /\ Len(scratch_pad.enqueued) < MaxEnvironment
    /\ \E event \in EnvironmentEvents :
          scratch_pad' = [scratch_pad EXCEPT !.stream = Append(@, event),
                                             !.enqueued = Append(@, event)]
    /\ UNCHANGED <<session_vars, stream, caller, parser, accumulator, invocation,
                   sse, web_vars>>

\* the last sender of the stream is dropped
EnvironmentClose ==
    /\ scratch_pad.pc = "next"
    /\ ~scratch_pad.closed
    /\ scratch_pad' = [scratch_pad EXCEPT !.closed = TRUE]
    /\ UNCHANGED <<session_vars, stream, caller, parser, accumulator, invocation,
                   sse, web_vars>>

\* stream.next() gives an event: ShutDown breaks, an anchor goes through
\* symbol_to_edit_request, which fails (`?`) or gives the edit requests to
\* fan out, every other event is done with at once
NextEvent ==
    /\ scratch_pad.pc = "next"
    /\ scratch_pad.stream # << >>
    /\ LET event == Head(scratch_pad.stream)
           taken == [scratch_pad EXCEPT !.stream = Tail(@)]
       IN  IF Breaks(event)
           THEN scratch_pad' = [taken EXCEPT !.pc = "exited"]
           ELSE IF event = "Anchor"
           THEN \E ok \in BOOLEAN, symbols \in SymbolCounts :
                   /\ ok \/ symbols = 0
                   /\ scratch_pad' =
                         IF ok
                         THEN [taken EXCEPT !.pc = "fan_out",
                                            !.to_send = symbols,
                                            !.in_flight = 0,
                                            !.edits_done = 0]
                         ELSE [taken EXCEPT !.handled = Append(@, event)]
           ELSE scratch_pad' = [taken EXCEPT !.handled = Append(@, event)]
    /\ UNCHANGED <<session_vars, stream, caller, parser, accumulator, invocation,
                   sse, web_vars>>

\* stream.next() gives None
StreamEnds ==
    /\ scratch_pad.pc = "next"
    /\ scratch_pad.stream = << >> /\ scratch_pad.closed
    /\ scratch_pad' = [scratch_pad EXCEPT !.pc = "exited"]
    /\ UNCHANGED <<session_vars, stream, caller, parser, accumulator, invocation,
                   sse, web_vars>>

\* buffer_unordered polls the next edit request: its event is sent to the
\* symbol manager and its response awaited
EditRequestSend ==
    /\ scratch_pad.pc = "fan_out"
    /\ scratch_pad.to_send > 0
    /\ CanPoll(scratch_pad.in_flight)
    /\ scratch_pad' = [scratch_pad EXCEPT
          !.to_send = @ - 1,
          !.in_flight = @ + 1]
    /\ UNCHANGED <<session_vars, stream, caller, parser, accumulator, invocation,
                   sse, web_vars>>

\* the response of one edit request in flight arrives, or its sender is
\* dropped
EditResponse ==
    /\ scratch_pad.pc = "fan_out"
    /\ scratch_pad.in_flight > 0
    /\ scratch_pad' = [scratch_pad EXCEPT !.in_flight = @ - 1,
                                          !.edits_done = @ + 1]
    /\ UNCHANGED <<session_vars, stream, caller, parser, accumulator, invocation,
                   sse, web_vars>>

\* collect() resolves: react_to_edits is spawned, code_iteration_finished is
\* sent and human_message_anchor returns
human_message_anchorReturn ==
    /\ scratch_pad.pc = "fan_out"
    /\ scratch_pad.to_send = 0 /\ scratch_pad.in_flight = 0
    /\ scratch_pad' = [scratch_pad EXCEPT !.pc = "next",
                                          !.handled = Append(@, "Anchor"),
                                          !.code_iteration_finished = @ + 1]
    /\ UNCHANGED <<session_vars, stream, caller, parser, accumulator, invocation,
                   sse, web_vars>>

ScratchPadNext ==
    \/ process_envrionment
    \/ EnvironmentSend
    \/ EnvironmentClose
    \/ NextEvent
    \/ StreamEnds
    \/ EditRequestSend
    \/ EditResponse
    \/ human_message_anchorReturn

SpecScratchPad == Init /\ [][ScratchPadNext]_vars

\* the loop and the fan-out are polled, and every edit request gets its
\* response or has its response channel dropped
FairSpecScratchPad ==
    /\ SpecScratchPad
    /\ WF_vars(NextEvent)
    /\ WF_vars(EditRequestSend)
    /\ WF_vars(EditResponse)
    /\ WF_vars(human_message_anchorReturn)

(* ------------------------------ Tool::invoke --------------------------- *)

\* const MAX_RESULTS: usize = 250
MAX_RESULTS == 250

\* let max_lines = MAX_RESULTS * 4
max_lines == MAX_RESULTS * 4

\* the lines the pipe between ripgrep and the reader holds before ripgrep's
\* write blocks
PipeCapacity == 2

\* how many lines ripgrep has to print
LineCounts == {0, 1, max_lines, max_lines + 1, max_lines + 1 + PipeCapacity,
               max_lines + 2 + PipeCapacity}

Tools == {"SearchFileContentClient", "MCPIntegrationToolBroker",
          "DynamicMCPTool"}

ToolInputs == {"SearchFileContentWithRegex", "MCPIntegrationTool",
               "DynamicMCPTool", "GenerateStep"}

OwnInput(t) ==
    IF t = "SearchFileContentClient" THEN "SearchFileContentWithRegex"
    ELSE IF t = "MCPIntegrationToolBroker" THEN "MCPIntegrationTool"
    ELSE "DynamicMCPTool"

Err(error, detail) == [ok |-> FALSE, error |-> error, detail |-> detail]

Ok(output) == [ok |-> TRUE, error |-> "none", detail |-> output]

\* what invoke answers to an input that is not of its own variant:
\* is_search_file_content_with_regex()?, the broker's match, the dynamic
\* tool's match
OnWrongInput(t) ==
    IF t = "SearchFileContentClient"
    THEN Err("WrongToolInput", "SearchFileContentWithRegex")
    ELSE IF t = "MCPIntegrationToolBroker"
    THEN Err("InvalidInput", "Expected MCPIntegrationTool input")
    ELSE Err("WrongToolInput", "DynamicMCPTool")

\* Tool::invoke(input): the variant of the input is looked at first
ToolInvoke ==
    /\ invocation.pc = "idle"
    /\ \E t \in Tools, input \in ToolInputs :
          invocation' =
              [pc |-> IF input # OwnInput(t) THEN "returned"
                      ELSE IF t = "SearchFileContentClient" THEN "rip_grep_path"
                      ELSE IF t = "MCPIntegrationToolBroker" THEN "handle_query"
                      ELSE "dynamic",
               tool |-> t, input |-> input,
               result |-> IF input # OwnInput(t) THEN OnWrongInput(t)
                          ELSE Ok(<< >>),
               remote_calls |-> 0,
               produced |-> 0, written |-> 0, pipe |-> << >>,
               output |-> << >>, line_count |-> 0]
    /\ UNCHANGED <<session_vars, stream, caller, parser, accumulator,
                   scratch_pad, sse, web_vars>>

\* handle_query: list_all_tools asks every server; a call needs its
\* server_name, its tool_name and a server of that name, and then asks it
handle_query ==
    /\ invocation.pc = "handle_query"
    /\ \E action \in {"List", "Call"}, named \in BOOLEAN, found \in BOOLEAN,
          answered \in BOOLEAN :
          /\ action = "Call" \/ (named /\ found)
          /\ named \/ ~found
          /\ found \/ answered
          /\ invocation' = [invocation EXCEPT
                !.pc = "returned",
                !.remote_calls = IF found THEN 1 ELSE 0,
                !.result = IF ~named \/ ~found THEN Err("InvalidInput", action)
                           ELSE IF ~answered THEN Err("InvocationError", action)
                           ELSE Ok(<<action>>)]
    /\ UNCHANGED <<session_vars, stream, caller, parser, accumulator,
                   scratch_pad, sse, web_vars>>

\* DynamicMCPTool::invoke on its own variant: the tool name of the input
\* has to be the tool's, and then the server is asked
DynamicCall ==
    /\ invocation.pc = "dynamic"
    /\ \E same_name \in BOOLEAN, answered \in BOOLEAN :
          /\ same_name \/ answered
          /\ invocation' = [invocation EXCEPT
                !.pc = "returned",
                !.remote_calls = IF same_name THEN 1 ELSE 0,
                !.result = IF ~same_name THEN Err("InvalidInput", "mismatch")
                           ELSE IF ~answered
                           THEN Err("InvocationError", "call_tool")
                           ELSE Ok(<<"ToolCall">>)]
    /\ UNCHANGED <<session_vars, stream, caller, parser, accumulator,
                   scratch_pad, sse, web_vars>>

\* the editor is asked for the path of ripgrep: an answer that is not the
\* expected JSON ends the call, an editor that cannot be reached gives "rg"
rip_grep_path ==
    /\ invocation.pc = "rip_grep_path"
    /\ \E answer \in {"path", "not_json", "unreachable"} :
          invocation' = [invocation EXCEPT
              !.remote_calls = 1,
              !.pc = IF answer = "not_json" THEN "returned" ELSE "spawn",
              !.result = IF answer = "not_json"
                         THEN Err("SerdeConversionFailed", answer) ELSE @]
    /\ UNCHANGED <<session_vars, stream, caller, parser, accumulator,
                   scratch_pad, sse, web_vars>>

\* Command::new(rg_path)...spawn() and child.stdout.take()
SpawnRipgrep ==
    /\ invocation.pc = "spawn"
    /\ \E outcome \in {"spawned", "io_error", "no_stdout"},
          produced \in LineCounts :
          /\ outcome = "spawned" \/ produced = 0
          /\ invocation' = [invocation EXCEPT
                !.pc = IF outcome = "spawned" THEN "reading" ELSE "returned",
                !.produced = produced,
                !.result = IF outcome = "io_error" THEN Err("IOError", "spawn")
                           ELSE IF outcome = "no_stdout"
                           THEN Err("OutputStreamNotPresent", "stdout")
                           ELSE @]
    /\ UNCHANGED <<session_vars, stream, caller, parser, accumulator,
                   scratch_pad, sse, web_vars>>

\* ripgrep prints its next line, which needs room in the pipe; the reader
\* keeps the read end of the pipe open until invoke returns
RipgrepWrite ==
    /\ invocation.pc \in {"reading", "wait"}
    /\ invocation.written < invocation.produced
    /\ Len(invocation.pipe) < PipeCapacity
    /\ invocation' = [invocation EXCEPT
          !.written = @ + 1,
          !.pipe = Append(@, invocation.written + 1)]
    /\ UNCHANGED <<session_vars, stream, caller, parser, accumulator,
                   scratch_pad, sse, web_vars>>

\* if line_count >= max_lines { break; }
ReachedBound(line_count) == line_count >= max_lines

\* reader.next_line() gives a line: it is the line after the last one of
\* the output, or the loop breaks
ReadLine ==
    /\ invocation.pc = "reading"
    /\ invocation.pipe # << >>
    /\ invocation' =
          IF ReachedBound(invocation.line_count)
          THEN [invocation EXCEPT !.pipe = Tail(@), !.pc = "wait"]
          ELSE [invocation EXCEPT
                   !.pipe = Tail(@),
                   !.output = Append(@, Head(invocation.pipe)),
                   !.line_count = @ + 1]
    /\ UNCHANGED <<session_vars, stream, caller, parser, accumulator,
                   scratch_pad, sse, web_vars>>

\* reader.next_line() gives None: ripgrep has printed everything and closed
\* its end of the pipe
ReadEnd ==
    /\ invocation.pc = "reading"
    /\ invocation.pipe = << >>
    /\ invocation.written = invocation.produced
    /\ invocation' = [invocation EXCEPT !.pc = "wait"]
    /\ UNCHANGED <<session_vars, stream, caller, parser, accumulator,
                   scratch_pad, sse, web_vars>>

\* reader.next_line().await? on a line that cannot be read
ReadError ==
    /\ invocation.pc = "reading"
    /\ invocation.pipe # << >>
    /\ invocation' = [invocation EXCEPT
          !.pc = "returned", !.result = Err("IOError", "next_line")]
    /\ UNCHANGED <<session_vars, stream, caller, parser, accumulator,
                   scratch_pad, sse, web_vars>>

\* child.wait() resolves once ripgrep has exited, which it does when it has
\* printed its last line; the output read so far is the response
WaitAndReturn ==
    /\ invocation.pc = "wait"
    /\ invocation.written = invocation.produced
    /\ invocation' = [invocation EXCEPT
          !.pc = "returned", !.result = Ok(invocation.output)]
    /\ UNCHANGED <<session_vars, stream, caller, parser, accumulator,
                   scratch_pad, sse, web_vars>>

ToolNext ==
    \/ ToolInvoke
    \/ handle_query
    \/ DynamicCall
    \/ rip_grep_path
    \/ SpawnRipgrep
    \/ RipgrepWrite
    \/ ReadLine
    \/ ReadEnd
    \/ ReadError
    \/ WaitAndReturn

SpecTool == Init /\ [][ToolNext]_vars

\* ripgrep runs, the runtime polls the reader and the wait
FairSpecTool == SpecTool /\ WF_vars(ToolNext)

(* ------------------------------ server-sent events --------------------- *)

MaxUi == 3

MaxClones == 1

Started == <<"started", 0>>

Done == <<"[CODESTORY_DONE]", 0>>

RequestCancelled == <<"request_cancelled", 0>>

UiEvent(n) == <<"ui_event", n>>

OpenedResponse(endpoint, senders, operation, channel) ==
    [pc |-> "streaming", endpoint |-> endpoint, senders |-> senders,
     operation |-> operation, clones |-> 0, token_found |-> FALSE,
     channel |-> channel, sent |-> channel, frames |-> << >>]

\* agent_session_chat and the endpoints built like it: the handler makes the
\* channel, gives a clone of its sender to the message properties, spawns
\* the service operation with them and returns the response; its own sender
\* is dropped when it returns
agent_session_chat ==
    /\ sse.pc = "idle"
    /\ sse' = OpenedResponse("agent_session_chat", 1, "running", << >>)
    /\ UNCHANGED <<session_vars, stream, caller, parser, accumulator,
                   scratch_pad, invocation, web_vars>>

CancelEventsNone(token_found, session_events) == session_events

\* what cancel_running_exchange has sent when it returns: request_cancelled,
\* after the events of set_exchange_as_cancelled, if the exchange had a token
CancelEvents(token_found, session_events) ==
    IF token_found THEN session_events \o <<RequestCancelled>> ELSE << >>

\* cancel_running_exchange: the whole handler runs before the response is
\* returned; set_exchange_as_cancelled may send events of its own and may
\* panic while it loads the session; every sender is dropped on return
cancel_running_exchangeResponse ==
    /\ sse.pc = "idle"
    /\ \E token_found \in BOOLEAN, panics \in BOOLEAN,
          session_events \in {<< >>, <<UiEvent(1)>>} :
          /\ token_found \/ (~panics /\ session_events = << >>)
          /\ sse' = IF panics
                    THEN [OpenedResponse("cancel_running_exchange", 0, "none",
                                         << >>)
                             EXCEPT !.pc = "panicked",
                                    !.token_found = token_found]
                    ELSE [OpenedResponse("cancel_running_exchange", 0, "none",
                                         CancelEvents(token_found,
                                                      session_events))
                             EXCEPT !.token_found = token_found]
    /\ UNCHANGED <<session_vars, stream, caller, parser, accumulator,
                   scratch_pad, invocation, web_vars>>

\* the service operation, or a task that holds a clone of its ui_sender,
\* sends a UI event
UiSend ==
    /\ sse.pc \in {"streaming", "closed"}
    /\ sse.senders > 0
    /\ Len(sse.sent) < MaxUi
    /\ LET event == UiEvent(Len(sse.sent) + 1)
       IN  sse' = [sse EXCEPT !.channel = Append(@, event),
                              !.sent = Append(@, event)]
    /\ UNCHANGED <<session_vars, stream, caller, parser, accumulator,
                   scratch_pad, invocation, web_vars>>

\* the service operation hands a clone of the ui_sender to a task it spawns
UiSenderClone ==
    /\ sse.pc \in {"streaming", "closed"}
    /\ sse.operation = "running"
    /\ sse.clones < MaxClones
    /\ sse' = [sse EXCEPT !.clones = @ + 1, !.senders = @ + 1]
    /\ UNCHANGED <<session_vars, stream, caller, parser, accumulator,
                   scratch_pad, invocation, web_vars>>

\* a task that holds a clone ends
UiSenderDrop ==
    /\ sse.pc \in {"streaming", "closed"}
    /\ sse.senders > (IF sse.operation = "running" THEN 1 ELSE 0)
    /\ sse' = [sse EXCEPT !.senders = @ - 1]
    /\ UNCHANGED <<session_vars, stream, caller, parser, accumulator,
                   scratch_pad, invocation, web_vars>>

\* the spawned service operation ends, its message properties are dropped
OperationEnds ==
    /\ sse.pc \in {"streaming", "closed"}
    /\ sse.operation = "running"
    /\ sse' = [sse EXCEPT !.operation = "finished", !.senders = @ - 1]
    /\ UNCHANGED <<session_vars, stream, caller, parser, accumulator,
                   scratch_pad, invocation, web_vars>>

StreamEndedWhenEmpty(senders, channel) == channel = << >>

\* UnboundedReceiverStream gives None when the channel is empty and every
\* sender is dropped
StreamEnded(senders, channel) == channel = << >> /\ senders = 0

\* init_stream.chain(answer_stream).chain(done_stream), polled by the
\* connection: the started frame, the UI events in the order of the channel,
\* and the done frame once the channel has ended
SsePoll ==
    /\ sse.pc = "streaming"
    /\ IF sse.frames = << >>
       THEN sse' = [sse EXCEPT !.frames = <<Started>>]
       ELSE IF sse.channel # << >>
       THEN sse' = [sse EXCEPT !.frames = Append(@, Head(sse.channel)),
                               !.channel = Tail(@)]
       ELSE /\ StreamEnded(sse.senders, sse.channel)
            /\ sse' = [sse EXCEPT !.frames = Append(@, Done),
                                  !.pc = "closed"]
    /\ UNCHANGED <<session_vars, stream, caller, parser, accumulator,
                   scratch_pad, invocation, web_vars>>

SseNext ==
    \/ agent_session_chat
    \/ cancel_running_exchangeResponse
    \/ UiSend
    \/ UiSenderClone
    \/ UiSenderDrop
    \/ OperationEnds
    \/ SsePoll

SpecSse == Init /\ [][SseNext]_vars

\* the connection keeps polling the response
FairSpecSse == SpecSse /\ WF_vars(SsePoll)

(* ------------------------------ running_exchanges keys ---------------- *)

MaxIdLen == 2

MaxTracked == 2

\* session ids and exchange ids are strings; '-' is a character they may hold
Ids == UNION {[1..n -> {"a", "-"}] : n \in 1..MaxIdLen}

\* SessionService::track_exchange with a token made for the call
TrackExchange ==
    /\ Cardinality(DOMAIN tracked) < MaxTracked
    /\ \E session_id \in Ids, exchange_id \in Ids :
          LET token == ExchangeToken(Cardinality(DOMAIN tracked) + 1)
          IN  /\ <<session_id, exchange_id>> \notin DOMAIN tracked
              /\ running_exchanges' =
                    track_exchange(running_exchanges, session_id, exchange_id,
                                   token)
              /\ tracked' = Put(tracked, <<session_id, exchange_id>>, token)
    /\ UNCHANGED <<storage, cancelled, editor, files, ops, task, before,
                   last_cancel, stream, caller, parser, accumulator,
                   scratch_pad, invocation, sse, tracker>>

SpecTrack == Init /\ [][TrackExchange]_vars

(* ------------------------------ AnchoredEditingTracker ----------------- *)

MaxEditing == 3

RequestIds == {<<"r">>, <<"q">>}

\* update_cancellation_token, or track_new_request for a request id the
\* tracker does not know: the properties of request_id hold the new token
update_cancellation_token(properties, request_id, token) ==
    Put(properties, request_id, token)

\* AnchoredEditingTracker::cancel_request: cancel the token in the
\* properties of request_id, if there are any
cancel_request(t, request_id) ==
    IF request_id \in DOMAIN t.running_requests_properties
    THEN t.cancelled \cup {t.running_requests_properties[request_id]}
    ELSE t.cancelled

\* code_editing: a new token goes into the message properties of the call
\* and into the tracker's properties of request_id; the edit is handed to
\* the scratch-pad agent of request_id with those message properties
code_editing ==
    /\ Len(tracker.operations) < MaxEditing
    /\ \E request_id \in RequestIds :
          LET token == RequestToken(Len(tracker.operations) + 1)
          IN  tracker' = [tracker EXCEPT
                 !.running_requests_properties =
                     update_cancellation_token(@, request_id, token),
                 !.operations = Append(@, [request_id |-> request_id,
                                           token |-> token,
                                           finished |-> FALSE]),
                 !.stopped = NoId]
    /\ UNCHANGED <<session_vars, stream, caller, parser, accumulator,
                   scratch_pad, invocation, sse, tracked>>

\* the scratch-pad agent is done with an edit
EditingFinishes ==
    /\ \E i \in 1..Len(tracker.operations) :
          /\ ~tracker.operations[i].finished
          /\ tracker' = [tracker EXCEPT !.operations[i].finished = TRUE,
                                        !.stopped = NoId]
    /\ UNCHANGED <<session_vars, stream, caller, parser, accumulator,
                   scratch_pad, invocation, sse, tracked>>

\* probe_request_stop: cancel_request on the anchored editing tracker
probe_request_stop ==
    /\ \E request_id \in RequestIds :
          /\ tracker.stopped # request_id
          /\ tracker' = [tracker EXCEPT
                 !.cancelled = cancel_request(tracker, request_id),
                 !.stopped = request_id]
    /\ UNCHANGED <<session_vars, stream, caller, parser, accumulator,
                   scratch_pad, invocation, sse, tracked>>

TrackerNext ==
    \/ code_editing
    \/ EditingFinishes
    \/ probe_request_stop

SpecTracker == Init /\ [][TrackerNext]_vars

(* ------------------------------ claims on the accumulator -------------- *)

\* the search matches one place of the file
OccursOnce(code_lines, search) ==
    Cardinality(Matches(code_lines, search)) = 1

\* the search matches one place of the file, whose lines are the search
\* lines byte for byte
OccursOnceLiterally(code_lines, search) ==
    /\ OccursOnce(code_lines, search)
    /\ \A at \in Matches(code_lines, search) :
          SubSeq(code_lines, at, at + Len(search) - 1) = search

\* the stream was a block (S, R) and then its reverse (R, S)
Reversed ==
    /\ accumulator.pc = "open"
    /\ Len(accumulator.blocks) = 2
    /\ accumulator.blocks[2].search = accumulator.blocks[1].replace
    /\ accumulator.blocks[2].replace = accumulator.blocks[1].search

\* the file after the first block of the stream
AfterFirst ==
    ApplyBlock(accumulator.original, accumulator.original,
               accumulator.blocks[1].search,
               accumulator.blocks[1].replace).code_lines

KeepsLastLine(code_lines, search) ==
    \A at \in Matches(code_lines, search) :
        at + Len(search) - 1 < Len(code_lines)

EndsBlock ==
    /\ accumulator.pc = "open"
    /\ Len(accumulator'.blocks) = Len(accumulator.blocks) + 1

LastBlock(acc) == acc.blocks[Len(acc.blocks)]

\* C21: a file that ended with a newline ends with a newline after every
\* block, and an empty file to which a block with an empty search appends
\* content ends with a newline.
C21_NewlinePreserved ==
    /\ [](accumulator.pc = "open" /\ EndsWithNewline(accumulator.original)
            => EndsWithNewline(accumulator.code_lines))
    /\ [][EndsBlock
            /\ accumulator.original = EmptyFile
            /\ accumulator.code_lines = EmptyFile
            /\ LastBlock(accumulator').search = << >>
            /\ LastBlock(accumulator').replace # << >>
          => EndsWithNewline(accumulator'.code_lines)]_vars

C21_Witness ==
    /\ accumulator.pc = "open"
    /\ EndsWithNewline(accumulator.original)
    /\ Len(accumulator.blocks) = 1
    /\ ~accumulator.blocks[1].miss
    /\ ~KeepsLastLine(accumulator.original, accumulator.blocks[1].search)
    /\ accumulator.blocks[1].replace = <<<<"a">>>>
    /\ EndsWithNewline(accumulator.code_lines)

\* C22: a block whose search matches no place or several places of the file
\* leaves the file as it is and counts one EditBlockMiss, and a block that
\* comes after a miss is applied like any other.
C22_MissSkipped ==
    [][EndsBlock =>
          LET block == LastBlock(accumulator')
              found == block.search = << >>
                          \/ OccursOnce(accumulator.code_lines, block.search)
          IN  /\ accumulator'.state = "Idle"
              /\ ~found =>
                    /\ accumulator'.code_lines = accumulator.code_lines
                    /\ accumulator'.misses = accumulator.misses + 1
              /\ found =>
                    /\ accumulator'.misses = accumulator.misses
                    /\ accumulator'.code_lines =
                          ApplyBlock(accumulator.original,
                                     accumulator.code_lines,
                                     block.search, block.replace).code_lines]_vars

C22_Witness ==
    /\ accumulator.pc = "open"
    /\ Len(accumulator.blocks) = 2
    /\ accumulator.blocks[1].miss
    /\ Cardinality(Matches(accumulator.original,
                           accumulator.blocks[1].search)) = 2
    /\ ~accumulator.blocks[2].miss
    /\ accumulator.misses = 1
    /\ accumulator.code_lines # accumulator.original

\* the first place of the stream, from `from` on, where the line stands
RECURSIVE FirstLine(_, _, _)
FirstLine(lines, line, from) ==
    IF from > Len(lines) THEN 0
    ELSE IF lines[from] = line THEN from
    ELSE FirstLine(lines, line, from + 1)

\* the complete blocks of a stream, in its order
RECURSIVE BlocksOf(_)
BlocksOf(lines) ==
    LET s == FirstLine(lines, SearchMarker, 1)
        d == IF s = 0 THEN 0 ELSE FirstLine(lines, Divider, s + 1)
        r == IF d = 0 THEN 0 ELSE FirstLine(lines, ReplaceMarker, d + 1)
    IN  IF r = 0 THEN << >>
        ELSE <<[search |-> SubSeq(lines, s + 1, d - 1),
                replace |-> SubSeq(lines, d + 1, r - 1)]>>
                 \o BlocksOf(SubSeq(lines, r + 1, Len(lines)))

RECURSIVE ApplyAll(_, _, _)
ApplyAll(original, code_lines, blocks) ==
    IF blocks = << >> THEN code_lines
    ELSE ApplyAll(original,
                  ApplyBlock(original, code_lines, Head(blocks).search,
                             Head(blocks).replace).code_lines,
                  Tail(blocks))

\* C23: the file is the original file with the complete blocks of the stream
\* received so far applied one after the other in their order, and a delta
\* that ends no block leaves the file as it is.
C23_StreamOrder ==
    /\ [](accumulator.pc = "open" =>
            accumulator.code_lines =
                ApplyAll(accumulator.original, accumulator.original,
                         BlocksOf(accumulator.received)))
    /\ [][accumulator.pc = "open" /\ ~EndsBlock
            => accumulator'.code_lines = accumulator.code_lines]_vars

C23_Witness ==
    /\ accumulator.pc = "open"
    /\ accumulator.granularity = "line"
    /\ accumulator.received # << >> /\ accumulator.received[1] = Prose
    /\ Len(accumulator.blocks) = 1
    /\ accumulator.code_lines # accumulator.original

(* ------------------------------ claims on the scratch pad -------------- *)

\* C24: while the edit requests of one anchor are fanned out, at most 100
\* of them have been sent and still wait for their response.
C24_BoundedFanOut ==
    scratch_pad.pc = "fan_out" => scratch_pad.in_flight <= 100

C24_Witness ==
    /\ scratch_pad.pc = "fan_out"
    /\ scratch_pad.in_flight = 100
    /\ scratch_pad.to_send = 1

\* the events sent before the first ShutDown, or all of them
RECURSIVE BeforeShutDown(_)
BeforeShutDown(events) ==
    IF events = << >> \/ Head(events) = "ShutDown" THEN << >>
    ELSE <<Head(events)>> \o BeforeShutDown(Tail(events))

Searching ==
    /\ invocation.pc # "idle"
    /\ invocation.tool = "SearchFileContentClient"

\* C26: a search returns at most 1000 lines, the first that ripgrep printed
\* in their order, and a search that ripgrep answers with more lines than
\* that does return.
C26_BoundedSearch ==
    /\ [](Searching /\ invocation.pc = "returned" /\ invocation.result.ok =>
            /\ Len(invocation.result.detail) <= 1000
            /\ invocation.result.detail =
                  [i \in 1..Len(invocation.result.detail) |-> i])
    /\ (Searching /\ invocation.pc = "reading"
            /\ invocation.produced > 1000
          ~> invocation.pc = "returned")

\* C27: the response of a search that ripgrep answered with more than 1000
\* lines holds something that is not a line of ripgrep, a marker.
C27_TruncationMarker ==
    /\ Searching /\ invocation.pc = "returned" /\ invocation.result.ok
    /\ invocation.produced > 1000
    => \E i \in 1..Len(invocation.result.detail) :
          invocation.result.detail[i] \notin 1..invocation.produced

\* C28: an invoke that was given an input of another variant than its own
\* returns WrongToolInput and has made no remote call.
C28_WrongToolInput ==
    /\ invocation.pc = "returned"
    /\ invocation.input # OwnInput(invocation.tool)
    => /\ invocation.result.error = "WrongToolInput"
       /\ invocation.remote_calls = 0

(* ------------------------------ claims on the responses ---------------- *)

\* the response has request_cancelled after its first and before its last
\* frame
HasRequestCancelled ==
    \E i \in 2..(Len(sse.frames) - 1) : sse.frames[i] = RequestCancelled

CancelResponseClosed ==
    /\ sse.pc = "closed"
    /\ sse.endpoint = "cancel_running_exchange"
    /\ sse.frames[1] = Started
    /\ sse.frames[Len(sse.frames)] = Done

ChatResponse ==
    sse.pc \in {"streaming", "closed"} /\ sse.endpoint = "agent_session_chat"

\* C30: the frames of the response are the started frame and the UI events
\* in the order they were sent; the done frame comes when the operation has
\* finished and every sender is dropped, it is the last frame and every UI
\* event sent is before it; and once the operation has finished and every
\* sender is dropped the done frame does come.
C30_DoneLast ==
    /\ [](ChatResponse /\ sse.pc = "streaming" /\ sse.frames # << >> =>
            sse.frames = <<Started>>
                \o SubSeq(sse.sent, 1, Len(sse.frames) - 1))
    /\ [](ChatResponse /\ sse.pc = "closed" =>
            /\ sse.operation = "finished" /\ sse.senders = 0
            /\ sse.frames = <<Started>> \o sse.sent \o <<Done>>)
    /\ [][ChatResponse /\ sse.pc = "closed" => sse' = sse]_vars
    /\ (ChatResponse /\ sse.operation = "finished" /\ sse.senders = 0
          ~> sse.pc = "closed")

C30_Witness ==
    /\ ChatResponse /\ sse.pc = "closed"
    /\ sse.clones = 1
    /\ sse.frames = <<Started, UiEvent(1), UiEvent(2), UiEvent(3), Done>>

(* ------------------------------ claims on the service, continued ------- *)

\* the operation that registered the token of this exchange is still running
InFlight(exchange_id) ==
    \E p \in Procs :
        /\ task[p].op \in ModeOps
        /\ task[p].pc \notin {"idle", "done"}
        /\ task[p].request_id = exchange_id

\* C31: get_cancellation_token gives a token only for an exchange whose
\* registering operation has not returned yet.
C31_InFlightOnly ==
    \A n \in 1..editor :
        get_cancellation_token(running_exchanges, SessionId, ExchangeId(n))
            # NoToken
        => InFlight(ExchangeId(n))

NeedsSession(p) ==
    task[p].op \in {"handle_session_undo", "feedback_for_exchange",
                    "cancel_running_exchange"}

\* C32: handle_session_undo, feedback_for_exchange and
\* set_exchange_as_cancelled, called when the session has no stored document,
\* return an error and never report success.
C32_MissingSessionIsError ==
    [][\A p \in Procs :
          NeedsSession(p) /\ task[p].pc = "load" /\ Loaded.r = "err"
              /\ task'[p].pc = "done"
          => task'[p].result = "err"]_vars

NoSelection(p) ==
    /\ task[p].op = "code_edit_anchored"
    /\ ~task[p].selection

\* the call returns Ok and has appended no exchange, minted no exchange id,
\* registered no token and written nothing to storage
ReturnsUntouched(p) ==
    /\ task'[p].pc = "done" /\ task'[p].result = "ok"
    /\ task'[p].session = task'[p].loaded
    /\ editor' = editor
    /\ running_exchanges' = running_exchanges
    /\ storage' = storage

C34_NoAliasing ==
    \A session_id \in Ids, exchange_id \in Ids :
        get_cancellation_token(running_exchanges, session_id, exchange_id)
            = IF <<session_id, exchange_id>> \in DOMAIN tracked
              THEN tracked[<<session_id, exchange_id>>]
              ELSE NoToken

\* C38: when cancel_request(request_id) has run, every edit started under
\* request_id that has not finished has its token cancelled.
C38_CancelsEveryOperation ==
    \A i \in 1..Len(tracker.operations) :
        /\ tracker.stopped # NoId
        /\ tracker.operations[i].request_id = tracker.stopped
        /\ ~tracker.operations[i].finished
        => tracker.operations[i].token \in tracker.cancelled

(* ------------------------------ claims on the client, continued -------- *)

\* the event received last carries finish_reason = "tool_use"
FlushedLast ==
    /\ stream.status = "streaming"
    /\ stream.with_tool
    /\ stream.received # << >>
    /\ LET e == stream.received[Len(stream.received)]
       IN  e.type = "choice" /\ e.finish_reason = Some("tool_use")

\* C35: when the event with finish_reason = "tool_use" has been handled,
\* every tool-call piece received so far is in a flushed tool call: no name,
\* id or arguments are left in the trackers for the next tool call.
C35_FlushTakesAll ==
    FlushedLast =>
        /\ stream.current_tool_use = None
        /\ stream.current_tool_use_id = None
        /\ stream.running_tool_input = << >>

(* ------------------------------ claims on the tools, continued --------- *)

\* C37: every call of SearchFileContentClient::invoke returns, however many
\* lines ripgrep prints.
C37_SearchTerminates ==
    Searching ~> invocation.pc = "returned"

(* ------------------------------ claims on the scratch pad, continued --- *)

\* the anchored human messages the loop is done with
AnchorsHandled ==
    Cardinality({i \in 1..Len(scratch_pad.handled) :
                    scratch_pad.handled[i] = "Anchor"})

\* C39: code_iteration_finished is sent only when every edit request of the
\* fan-out has been sent and answered, one event at a time; when the loop is
\* done with an anchored human message it has sent one event for each
\* anchored message so far; and the handling of an anchored message ends.
C39_IterationFinished ==
    /\ [][scratch_pad.pc # "idle"
            /\ scratch_pad'.code_iteration_finished
                 # scratch_pad.code_iteration_finished
          => /\ scratch_pad.to_send = 0 /\ scratch_pad.in_flight = 0
             /\ scratch_pad'.code_iteration_finished
                  = scratch_pad.code_iteration_finished + 1]_vars
    /\ [](scratch_pad.pc \in {"next", "exited"} =>
            scratch_pad.code_iteration_finished = AnchorsHandled)
    /\ (scratch_pad.pc = "fan_out" ~> scratch_pad.pc = "next")

====
